---- MODULE Spec2Model ----
(***************************************************************************)
(* The tabular-data analysis engine of src/lib/analysis.ts: the CSV        *)
(* tokenizer (parseCsv, parseCsvLine) and the analysis engine              *)
(* (analyzeRecords with toNumber, formatNumber, describeChange), and the   *)
(* mock API of src/mocks/handlers.ts that serves it: the login, chat and   *)
(* analysis handlers with their two request counters.  Two pieces of the   *)
(* client plumbing follow: the retrying request wrapper fetchWithTimeout   *)
(* of src/lib/request-utils.ts and the persisted store of                  *)
(* src/lib/zustand.ts as src/stores/auth-store.ts uses it.                 *)
(*                                                                         *)
(* Representation.                                                         *)
(*  - A JavaScript string is a sequence of one-character strings.          *)
(*  - A JavaScript number is an exact rational [n, d] in lowest terms      *)
(*    with d > 0.  Within the bounds below every parsed value is a short   *)
(*    decimal, so sums and comparisons agree with the double arithmetic    *)
(*    of the code up to binary representation error; -0 is identified      *)
(*    with 0 and non-finite numbers are outside the input domain.          *)
(*  - A record value is tagged: [type |-> "string", str |-> chars],        *)
(*    [type |-> "number", num |-> rational], or one of undefined, null,    *)
(*    a boolean, a nested object.                                          *)
(*  - A JavaScript object is the sequence of its [key, value] entries in   *)
(*    enumeration order (array-index keys ascending, then the other keys   *)
(*    in insertion order).                                                 *)
(***************************************************************************)
EXTENDS Integers, Sequences, FiniteSets, TLC

VARIABLES content, records, result, pc, probe,
          dailyChatRequests, dailyAnalysisRequests, request, response,
          received, firstServed,
          config, attempt, lastError, controllerAborted, externalAborted,
          combinedAborted, timeoutId, outcome, fetchLog,
          storage, state

mockVars ==
  <<dailyChatRequests, dailyAnalysisRequests, request, response, received, firstServed>>
fetchVars ==
  <<config, attempt, lastError, controllerAborted, externalAborted,
    combinedAborted, timeoutId, outcome, fetchLog>>
storeVars == <<storage, state>>
vars == <<content, records, result, pc, probe, mockVars, fetchVars, storeVars>>

\* ------------------------------------------------------------------------
\* Characters and strings
\* ------------------------------------------------------------------------

Digits == {"0", "1", "2", "3", "4", "5", "6", "7", "8", "9"}

DigitVal(c) ==
  CASE c = "0" -> 0 [] c = "1" -> 1 [] c = "2" -> 2 [] c = "3" -> 3
    [] c = "4" -> 4 [] c = "5" -> 5 [] c = "6" -> 6 [] c = "7" -> 7
    [] c = "8" -> 8 [] c = "9" -> 9

DigitChar(v) ==
  CASE v = 0 -> "0" [] v = 1 -> "1" [] v = 2 -> "2" [] v = 3 -> "3"
    [] v = 4 -> "4" [] v = 5 -> "5" [] v = 6 -> "6" [] v = 7 -> "7"
    [] v = 8 -> "8" [] v = 9 -> "9"

\* The white space String.prototype.trim removes (within the alphabets used).
IsSpace(c) == c \in {" ", "\t", "\n", "\r"}

RECURSIVE TrimStart(_)
TrimStart(s) ==
  IF s = <<>> THEN <<>>
  ELSE IF IsSpace(Head(s)) THEN TrimStart(Tail(s)) ELSE s

RECURSIVE TrimEnd(_)
TrimEnd(s) ==
  IF s = <<>> THEN <<>>
  ELSE IF IsSpace(s[Len(s)]) THEN TrimEnd(SubSeq(s, 1, Len(s) - 1)) ELSE s

\* String.prototype.trim
Trim(s) == TrimEnd(TrimStart(s))

\* Concatenation of a sequence of strings with a separator: Array.join
RECURSIVE Join(_, _)
Join(parts, sep) ==
  IF parts = <<>> THEN <<>>
  ELSE IF Len(parts) = 1 THEN parts[1]
  ELSE parts[1] \o sep \o Join(Tail(parts), sep)

\* Non-negative integer to its decimal digits: String(n) for n >= 0
RECURSIVE NatToStr(_)
NatToStr(n) ==
  IF n < 10 THEN <<DigitChar(n)>>
  ELSE Append(NatToStr(n \div 10), DigitChar(n % 10))

\* The value of a string of digits (0 for the empty string)
RECURSIVE DigitsToNat(_)
DigitsToNat(s) ==
  IF s = <<>> THEN 0
  ELSE DigitsToNat(SubSeq(s, 1, Len(s) - 1)) * 10 + DigitVal(s[Len(s)])

RECURSIVE Pow10(_)
Pow10(k) == IF k = 0 THEN 1 ELSE 10 * Pow10(k - 1)

\* ------------------------------------------------------------------------
\* Numbers: exact rationals in lowest terms
\* ------------------------------------------------------------------------

Abs(x) == IF x < 0 THEN -x ELSE x

RECURSIVE GCD(_, _)
GCD(a, b) == IF b = 0 THEN a ELSE GCD(b, a % b)

Rat(n, d) ==
  LET s == IF d < 0 THEN -1 ELSE 1
      g == GCD(Abs(n), Abs(d))
  IN [n |-> (s * n) \div g, d |-> (s * d) \div g]

Zero == Rat(0, 1)
RatOfInt(i) == Rat(i, 1)
RatAdd(a, b) == Rat(a.n * b.d + b.n * a.d, a.d * b.d)
RatSub(a, b) == Rat(a.n * b.d - b.n * a.d, a.d * b.d)
RatMul(a, b) == Rat(a.n * b.n, a.d * b.d)
RatDiv(a, b) == Rat(a.n * b.d, a.d * b.n)
RatLt(a, b) == a.n * b.d < b.n * a.d
RatLe(a, b) == a.n * b.d <= b.n * a.d
RatAbs(a) == [n |-> Abs(a.n), d |-> a.d]
RatNeg(a) == [n |-> -a.n, d |-> a.d]

\* floor(a * 10^k + 1/2) for a >= 0: the integer nearest to a * 10^k, the
\* larger one on a tie.
RoundScaled(a, k) == (2 * a.n * Pow10(k) + a.d) \div (2 * a.d)

\* Number.prototype.toFixed(2) followed by Number(): round the magnitude to
\* 2 decimals, ties to the larger magnitude, and keep the sign.
ToFixed2(a) ==
  IF a.n < 0 THEN Rat(-RoundScaled(RatAbs(a), 2), 100)
  ELSE Rat(RoundScaled(a, 2), 100)

\* Math.round: the nearest integer, ties toward +Infinity.
MathRound(a) == (2 * a.n + a.d) \div (2 * a.d)

\* ------------------------------------------------------------------------
\* Record values
\* ------------------------------------------------------------------------

StrVal(s) == [type |-> "string", str |-> s]
NumVal(a) == [type |-> "number", num |-> a]
\* the value of a property the object does not have
Undefined == [type |-> "undefined"]
\* Values a decoded JSON document can also hold: null, a boolean, a nested
\* plain object.
NullVal == [type |-> "null"]
BoolVal(b) == [type |-> "boolean", bool |-> b]
ObjectVal == [type |-> "object"]

\* value ?? fallback takes the fallback for undefined and for null
Nullish(value) == value.type \in {"undefined", "null"}

\* ------------------------------------------------------------------------
\* Number <-> string conversions used by toNumber (analysis.ts 3-7)
\* ------------------------------------------------------------------------

\* String(value).replace(/[^0-9.-]/g, "")
StripNonNumeric(s) == SelectSeq(s, LAMBDA c : c \in Digits \cup {".", "-"})

CountChar(s, ch) == Len(SelectSeq(s, LAMBDA c : c = ch))

RECURSIVE IndexOf(_, _, _)
IndexOf(s, ch, i) ==
  IF i > Len(s) THEN 0 ELSE IF s[i] = ch THEN i ELSE IndexOf(s, ch, i + 1)

\* Number(s) for a string s over digits, "." and "-": the StringNumericLiteral
\* grammar restricted to that alphabet.  The empty string converts to 0; an
\* optional leading "-" is followed by digits with at most one "." and at
\* least one digit; anything else is NaN (ok = FALSE).
JsNumber(s) ==
  IF s = <<>> THEN [ok |-> TRUE, num |-> Zero]
  ELSE
    LET neg  == s[1] = "-"
        body == IF neg THEN Tail(s) ELSE s
        dot  == IndexOf(body, ".", 1)
        ds   == SelectSeq(body, LAMBDA c : c \in Digits)
        frac == IF dot = 0 THEN 0 ELSE Len(body) - dot
        mag  == Rat(DigitsToNat(ds), Pow10(frac))
    IN IF CountChar(body, "-") > 0 \/ CountChar(body, ".") > 1 \/ ds = <<>>
       THEN [ok |-> FALSE, num |-> Zero]
       ELSE [ok |-> TRUE, num |-> IF neg THEN RatNeg(mag) ELSE mag]

\* The number of decimal places of a terminating decimal with denominator d.
RECURSIVE DecimalPlaces(_, _)
DecimalPlaces(d, k) == IF Pow10(k) % d = 0 THEN k ELSE DecimalPlaces(d, k + 1)

RECURSIVE PadLeft(_, _)
PadLeft(s, width) == IF Len(s) >= width THEN s ELSE PadLeft(<<"0">> \o s, width)

\* String(value) for a finite number that is a short decimal
\* (Number::toString, radix 10, no exponent form within the bounds).
NumberToString(a) ==
  LET m    == RatAbs(a)
      k    == DecimalPlaces(m.d, 0)
      ip   == m.n \div m.d
      fr   == ((m.n % m.d) * Pow10(k)) \div m.d
      sign == IF a.n < 0 THEN <<"-">> ELSE <<>>
  IN sign \o NatToStr(ip)
          \o (IF k = 0 THEN <<>> ELSE <<".">> \o PadLeft(NatToStr(fr), k))

\* ------------------------------------------------------------------------
\* parseCsvLine (analysis.ts 35-67)
\* ------------------------------------------------------------------------

\* The loop of lines 40-60, from position index with the loop's locals.
RECURSIVE ParseCsvLineLoop(_, _, _, _, _)
ParseCsvLineLoop(line, index, values, current, insideQuotes) ==
  IF index > Len(line) THEN [values |-> values, current |-> current]
  ELSE
    LET char == line[index] IN
    IF char = "\"" THEN
      IF insideQuotes /\ index + 1 <= Len(line) /\ line[index + 1] = "\""
      THEN ParseCsvLineLoop(line, index + 2, values, Append(current, "\""), insideQuotes)
      ELSE ParseCsvLineLoop(line, index + 1, values, current, ~insideQuotes)
    ELSE IF char = "," /\ ~insideQuotes
      THEN ParseCsvLineLoop(line, index + 1, Append(values, Trim(current)), <<>>, insideQuotes)
      ELSE ParseCsvLineLoop(line, index + 1, values, Append(current, char), insideQuotes)

EndsWithComma(line) == line # <<>> /\ line[Len(line)] = ","

parseCsvLine(line) ==
  LET end == ParseCsvLineLoop(line, 1, <<>>, <<>>, FALSE) IN
  IF end.current # <<>> \/ EndsWithComma(line)
  THEN Append(end.values, Trim(end.current))
  ELSE end.values

\* ------------------------------------------------------------------------
\* JavaScript objects with string keys
\* ------------------------------------------------------------------------

\* An array index: a canonical numeric string ("0", or digits without a
\* leading zero) below 2^32 - 1.  Such keys enumerate first, ascending.
IsArrayIndex(k) ==
  /\ k # <<>>
  /\ \A i \in 1..Len(k) : k[i] \in Digits
  /\ (Len(k) = 1 \/ k[1] # "0")
  /\ Len(k) <= 9

HasKey(obj, k) == \E i \in 1..Len(obj) : obj[i].key = k

\* obj[k], with [ok |-> FALSE] standing for undefined
Get(obj, k) ==
  IF HasKey(obj, k)
  THEN [ok |-> TRUE, value |-> obj[CHOOSE i \in 1..Len(obj) : obj[i].key = k].value]
  ELSE [ok |-> FALSE]

\* The position at which a new key k enters the enumeration order of obj.
InsertPos(obj, k) ==
  IF IsArrayIndex(k)
  THEN 1 + Cardinality({i \in 1..Len(obj) :
                          IsArrayIndex(obj[i].key) /\ DigitsToNat(obj[i].key) < DigitsToNat(k)})
  ELSE Len(obj) + 1

\* obj[k] = v
Put(obj, k, v) ==
  IF HasKey(obj, k)
  THEN [i \in 1..Len(obj) |-> IF obj[i].key = k THEN [key |-> k, value |-> v] ELSE obj[i]]
  ELSE LET p == InsertPos(obj, k)
       IN SubSeq(obj, 1, p - 1) \o <<[key |-> k, value |-> v]>> \o SubSeq(obj, p, Len(obj))

\* ------------------------------------------------------------------------
\* parseCsv (analysis.ts 9-33)
\* ------------------------------------------------------------------------

\* String.prototype.split(/\r?\n/)
RECURSIVE SplitLines(_, _, _, _)
SplitLines(s, i, cur, acc) ==
  IF i > Len(s) THEN Append(acc, cur)
  ELSE IF s[i] = "\r" /\ i + 1 <= Len(s) /\ s[i + 1] = "\n"
    THEN SplitLines(s, i + 2, <<>>, Append(acc, cur))
  ELSE IF s[i] = "\n"
    THEN SplitLines(s, i + 1, <<>>, Append(acc, cur))
  ELSE SplitLines(s, i + 1, Append(cur, s[i]), acc)

\* lines 10-13: trim, split, drop the blank lines
NonBlankLines(text) ==
  SelectSeq(SplitLines(Trim(text), 1, <<>>, <<>>), LAMBDA line : Trim(line) # <<>>)

\* lines 25-28: the row object of one data line
RECURSIVE MakeRowSkipMissing(_, _, _, _)
MakeRowSkipMissing(headers, values, headerIndex, row) ==
  IF headerIndex > Len(headers) THEN row
  ELSE MakeRowSkipMissing(headers, values, headerIndex + 1,
                          IF headerIndex <= Len(values)
                          THEN Put(row, headers[headerIndex], StrVal(values[headerIndex]))
                          ELSE row)
RECURSIVE MakeRow(_, _, _, _)
MakeRow(headers, values, headerIndex, row) ==
  IF headerIndex > Len(headers) THEN row
  ELSE MakeRow(headers, values, headerIndex + 1,
               Put(row, headers[headerIndex],
                   StrVal(IF headerIndex <= Len(values) THEN values[headerIndex] ELSE <<>>)))

\* lines 22-30: the loop over the data lines
RECURSIVE ParseRows(_, _, _, _)
ParseRows(lines, headers, index, rows) ==
  IF index > Len(lines) THEN rows
  ELSE LET values == parseCsvLine(lines[index]) IN
       IF values = <<>> THEN ParseRows(lines, headers, index + 1, rows)
       ELSE ParseRows(lines, headers, index + 1,
                      Append(rows, MakeRow(headers, values, 1, <<>>)))

parseCsv(text) ==
  LET lines == NonBlankLines(text) IN
  IF lines = <<>> THEN <<>>
  ELSE ParseRows(lines, parseCsvLine(lines[1]), 2, <<>>)

\* ------------------------------------------------------------------------
\* The string literals of analysis.ts
\* ------------------------------------------------------------------------

\* String(undefined): "undefined"
UndefinedText ==
  <<"u", "n", "d", "e", "f", "i", "n", "e", "d">>

\* line 164: "Unknown"
UnknownBucket ==
  <<"U", "n", "k", "n", "o", "w", "n">>

\* line 106: "No rows detected in the supplied data."
NoRowsSummary ==
  <<"N", "o", " ", "r", "o", "w", "s", " ", "d", "e", "t", "e", "c", "t",
    "e", "d", " ", "i", "n", " ", "t", "h", "e", " ", "s", "u", "p", "p",
    "l", "i", "e", "d", " ", "d", "a", "t", "a", ".">>

\* line 107: "Upload a CSV or JSON file with at least one row to generate an analysis."
UploadInsight ==
  <<"U", "p", "l", "o", "a", "d", " ", "a", " ", "C", "S", "V", " ", "o",
    "r", " ", "J", "S", "O", "N", " ", "f", "i", "l", "e", " ", "w", "i",
    "t", "h", " ", "a", "t", " ", "l", "e", "a", "s", "t", " ", "o", "n",
    "e", " ", "r", "o", "w", " ", "t", "o", " ", "g", "e", "n", "e", "r",
    "a", "t", "e", " ", "a", "n", " ", "a", "n", "a", "l", "y", "s", "i",
    "s", ".">>

\* line 150: "Total "
TotalPrefix ==
  <<"T", "o", "t", "a", "l", " ">>

\* line 156: "Average "
AveragePrefix ==
  <<"A", "v", "e", "r", "a", "g", "e", " ">>

\* line 178: " leads on "
LeadsOn ==
  <<" ", "l", "e", "a", "d", "s", " ", "o", "n", " ">>

\* line 178: "the primary metric"
PrimaryMetric ==
  <<"t", "h", "e", " ", "p", "r", "i", "m", "a", "r", "y", " ", "m", "e",
    "t", "r", "i", "c">>

\* line 178: " with "
WithText ==
  <<" ", "w", "i", "t", "h", " ">>

\* line 181: " trails with "
TrailsWith ==
  <<" ", "t", "r", "a", "i", "l", "s", " ", "w", "i", "t", "h", " ">>

\* line 191: " rows processed."
RowsProcessed ==
  <<" ", "r", "o", "w", "s", " ", "p", "r", "o", "c", "e", "s", "s", "e",
    "d", ".">>

\* line 193: "Key measures: "
KeyMeasures ==
  <<"K", "e", "y", " ", "m", "e", "a", "s", "u", "r", "e", "s", ":", " ">>

\* line 193: " (total "
TotalOpen ==
  <<" ", "(", "t", "o", "t", "a", "l", " ">>

\* line 194: "No numeric measures detected."
NoNumericMeasures ==
  <<"N", "o", " ", "n", "u", "m", "e", "r", "i", "c", " ", "m", "e", "a",
    "s", "u", "r", "e", "s", " ", "d", "e", "t", "e", "c", "t", "e", "d",
    ".">>

\* line 195: "Primary grouping: "
PrimaryGrouping ==
  <<"P", "r", "i", "m", "a", "r", "y", " ", "g", "r", "o", "u", "p", "i",
    "n", "g", ":", " ">>

\* line 195: "No categorical dimensions found."
NoCategorical ==
  <<"N", "o", " ", "c", "a", "t", "e", "g", "o", "r", "i", "c", "a", "l",
    " ", "d", "i", "m", "e", "n", "s", "i", "o", "n", "s", " ", "f", "o",
    "u", "n", "d", ".">>

\* line 90: " stayed flat."
StayedFlat ==
  <<" ", "s", "t", "a", "y", "e", "d", " ", "f", "l", "a", "t", ".">>

\* line 95: " is up "
IsUp ==
  <<" ", "i", "s", " ", "u", "p", " ">>

\* line 95: "% vs. the rolling average."
VsRolling ==
  <<"%", " ", "v", "s", ".", " ", "t", "h", "e", " ", "r", "o", "l", "l",
    "i", "n", "g", " ", "a", "v", "e", "r", "a", "g", "e", ".">>

\* line 98: " dipped "
Dipped ==
  <<" ", "d", "i", "p", "p", "e", "d", " ">>

\* line 98: "% compared to the average."
ComparedTo ==
  <<"%", " ", "c", "o", "m", "p", "a", "r", "e", "d", " ", "t", "o", " ",
    "t", "h", "e", " ", "a", "v", "e", "r", "a", "g", "e", ".">>

\* line 100: " is right on the average."
RightOnAverage ==
  <<" ", "i", "s", " ", "r", "i", "g", "h", "t", " ", "o", "n", " ", "t",
    "h", "e", " ", "a", "v", "e", "r", "a", "g", "e", ".">>

\* ------------------------------------------------------------------------
\* toNumber (analysis.ts 3-7)
\* ------------------------------------------------------------------------

\* String(null), String(true), String(false), String({})
NullText == <<"n", "u", "l", "l">>
TrueText == <<"t", "r", "u", "e">>
FalseText == <<"f", "a", "l", "s", "e">>
ObjectText ==
  <<"[", "o", "b", "j", "e", "c", "t", " ", "O", "b", "j", "e", "c", "t", "]">>

\* String(value)
ToStr(value) ==
  CASE value.type = "string" -> value.str
    [] value.type = "number" -> NumberToString(value.num)
    [] value.type = "undefined" -> UndefinedText
    [] value.type = "null" -> NullText
    [] value.type = "boolean" -> IF value.bool THEN TrueText ELSE FalseText
    [] value.type = "object" -> ObjectText

\* toNumber: [ok |-> FALSE] stands for null.  Every number of the model is
\* finite, so a number is returned as it is (line 4); anything else is
\* converted to a string, stripped and parsed (lines 5-6).
toNumber(value) ==
  IF value.type = "number" THEN [ok |-> TRUE, num |-> value.num]
  ELSE JsNumber(StripNonNumeric(ToStr(value)))

\* record[key]
Field(record, key) ==
  LET got == Get(record, key) IN IF got.ok THEN got.value ELSE Undefined

\* ------------------------------------------------------------------------
\* formatNumber (analysis.ts 85-87)
\* ------------------------------------------------------------------------

\* The digits of a non-negative integer with "," between groups of three.
RECURSIVE Grouped(_)
Grouped(n) ==
  IF n < 1000 THEN NatToStr(n)
  ELSE Grouped(n \div 1000) \o <<",">> \o PadLeft(NatToStr(n % 1000), 3)

\* Intl.NumberFormat("en-US", {maximumFractionDigits: 2}).format(value):
\* rounded to 2 decimals (ties away from zero), trailing zeros dropped,
\* thousands grouped, "-" for a negative value.
formatNumber(a) ==
  LET r    == RoundScaled(RatAbs(a), 2)
      fr   == r % 100
      sign == IF a.n < 0 THEN <<"-">> ELSE <<>>
      frac == IF fr = 0 THEN <<>>
              ELSE IF fr % 10 = 0 THEN <<".", DigitChar(fr \div 10)>>
              ELSE <<".", DigitChar(fr \div 10), DigitChar(fr % 10)>>
  IN sign \o Grouped(r \div 100) \o frac

\* ------------------------------------------------------------------------
\* describeChange (analysis.ts 89-101)
\* ------------------------------------------------------------------------

\* String(i) for an integer
IntToStr(i) == IF i < 0 THEN <<"-">> \o NatToStr(-i) ELSE NatToStr(i)

\* Number.prototype.toFixed(2): always two decimals, "-" when value < 0
ToFixed2Str(a) ==
  LET r == RoundScaled(RatAbs(a), 2)
  IN (IF a.n < 0 THEN <<"-">> ELSE <<>>)
       \o NatToStr(r \div 100) \o <<".">> \o PadLeft(NatToStr(r % 100), 2)

describeChange(metric, value, avg) ==
  IF avg = Zero THEN metric \o StayedFlat
  ELSE
    LET delta      == RatSub(value, avg)
        percentage == RatMul(RatDiv(delta, avg), RatOfInt(100))
        small      == RatLt(RatAbs(percentage), Rat(1, 2))
        \* `${rounded}`
        roundedStr == IF small THEN ToFixed2Str(percentage)
                      ELSE IntToStr(MathRound(percentage))
        \* `${Math.abs(Number(rounded))}`
        absStr     == IF small THEN NumberToString(RatAbs(ToFixed2(percentage)))
                      ELSE NatToStr(Abs(MathRound(percentage)))
    IN IF delta.n > 0 THEN metric \o IsUp \o roundedStr \o VsRolling
       ELSE IF delta.n < 0 THEN metric \o Dipped \o absStr \o ComparedTo
       ELSE metric \o RightOnAverage

\* ------------------------------------------------------------------------
\* analyzeRecords (analysis.ts 103-221)
\* ------------------------------------------------------------------------

\* lines 104-112: the fixed result for an empty input
EmptyResult ==
  [summary  |-> NoRowsSummary,
   insights |-> <<UploadInsight>>,
   kpis     |-> <<>>,
   trends   |-> <<>>,
   table    |-> [headers |-> <<>>, rows |-> <<>>]]

\* Set.prototype.add on an insertion-ordered set
SetAdd(set, k) ==
  IF \E i \in 1..Len(set) : set[i] = k THEN set ELSE Append(set, k)

\* lines 118-125: the entries of one record, from entry i
RECURSIVE ClassifyEntriesExclusive(_, _, _)
ClassifyEntriesExclusive(record, i, keys) ==
  IF i > Len(record) THEN keys
  ELSE
    LET key   == record[i].key
        value == record[i].value
    IN IF toNumber(value).ok
       THEN ClassifyEntriesExclusive(record, i + 1,
              [keys EXCEPT !.numericKeys = SetAdd(@, key)])
       ELSE IF value.type = "string"
               /\ ~(\E n \in 1..Len(keys.numericKeys) : keys.numericKeys[n] = key)
       THEN ClassifyEntriesExclusive(record, i + 1,
              [keys EXCEPT !.stringKeys = SetAdd(@, key)])
       ELSE ClassifyEntriesExclusive(record, i + 1, keys)
RECURSIVE ClassifyEntries(_, _, _)
ClassifyEntries(record, i, keys) ==
  IF i > Len(record) THEN keys
  ELSE
    LET key   == record[i].key
        value == record[i].value
    IN IF toNumber(value).ok
       THEN ClassifyEntries(record, i + 1,
              [keys EXCEPT !.numericKeys = SetAdd(@, key)])
       ELSE IF value.type = "string"
       THEN ClassifyEntries(record, i + 1,
              [keys EXCEPT !.stringKeys = SetAdd(@, key)])
       ELSE ClassifyEntries(record, i + 1, keys)

\* lines 114-126: the classification pass over all records
RECURSIVE ClassifyRecords(_, _, _)
ClassifyRecords(recs, r, keys) ==
  IF r > Len(recs) THEN keys
  ELSE ClassifyRecords(recs, r + 1, ClassifyEntries(recs[r], 1, keys))

Classify(recs) ==
  ClassifyRecords(recs, 1, [numericKeys |-> <<>>, stringKeys |-> <<>>])

\* seq[0]: [ok |-> FALSE] stands for undefined
First(seq) == IF seq = <<>> THEN [ok |-> FALSE] ELSE [ok |-> TRUE, key |-> seq[1]]

\* line 128
NumericFields(recs) == Classify(recs).numericKeys

\* line 129
DimensionKey(recs) == First(Classify(recs).stringKeys)

\* line 130
FirstNumericKey(recs) == First(NumericFields(recs))

\* The truthiness of a string or undefined: undefined and "" are falsy.
Truthy(k) == k.ok /\ k.key # <<>>

\* lines 136-144: sum and count of the values of field that parse
RECURSIVE SumCount(_, _, _, _)
SumCount(recs, field, r, acc) ==
  IF r > Len(recs) THEN acc
  ELSE LET numericValue == toNumber(Field(recs[r], field)) IN
       IF numericValue.ok
       THEN SumCount(recs, field, r + 1,
                     [sum |-> RatAdd(acc.sum, numericValue.num), count |-> acc.count + 1])
       ELSE SumCount(recs, field, r + 1, acc)

\* line 145: totals[field]
Total(recs, field) == SumCount(recs, field, 1, [sum |-> Zero, count |-> 0]).sum

\* line 146: averages[field]
Average(recs, field) ==
  LET sc == SumCount(recs, field, 1, [sum |-> Zero, count |-> 0])
  IN IF sc.count # 0 THEN RatDiv(sc.sum, RatOfInt(sc.count)) ELSE Zero

\* Array.prototype.slice(0, n)
Slice(seq, n) == SubSeq(seq, 1, IF Len(seq) < n THEN Len(seq) ELSE n)

\* the slice left out: every numeric field gets a Total entry
KpiFieldsUnsliced(numericFields) == numericFields

\* line 149: numericFields.slice(0, 3)
KpiFields(numericFields) == Slice(numericFields, 3)

\* lines 149-159
Kpis(recs, numericFields, firstNumericKey) ==
  LET fields == KpiFields(numericFields)
      totals == [i \in 1..Len(fields) |->
                   [label |-> TotalPrefix \o fields[i],
                    value |-> formatNumber(Total(recs, fields[i]))]]
  IN IF Truthy(firstNumericKey)
     THEN Append(totals,
                 [label |-> AveragePrefix \o firstNumericKey.key,
                  value |-> formatNumber(Average(recs, firstNumericKey.key))])
     ELSE totals

\* The property name whose assignment sets an object's prototype: assigning
\* a number or a string to it is ignored and creates no own property.
ProtoName == <<"_", "_", "p", "r", "o", "t", "o", "_", "_">>

\* lines 163-167: the buckets, an object keyed by label.  The assignment of
\* line 166 to the label "__proto__" leaves the object as it was.
RECURSIVE GroupLoop(_, _, _, _, _)
GroupLoop(recs, dimensionKey, firstNumericKey, r, grouped) ==
  IF r > Len(recs) THEN grouped
  ELSE
    LET cell         == Field(recs[r], dimensionKey)
        bucket       == IF Nullish(cell) THEN UnknownBucket ELSE ToStr(cell)
        parsed       == toNumber(Field(recs[r], firstNumericKey))
        numericValue == IF parsed.ok THEN parsed.num ELSE Zero
        old          == Get(grouped, bucket)
    IN GroupLoop(recs, dimensionKey, firstNumericKey, r + 1,
                 IF bucket = ProtoName THEN grouped
                 ELSE Put(grouped, bucket,
                          RatAdd(IF old.ok THEN old.value ELSE Zero, numericValue)))

\* lines 161-168
GroupedBuckets(recs, dimensionKey, firstNumericKey) ==
  IF Truthy(dimensionKey) /\ Truthy(firstNumericKey)
  THEN GroupLoop(recs, dimensionKey.key, firstNumericKey.key, 1, <<>>)
  ELSE <<>>

\* the comparator turned around (valueA - valueB): ascending order
RECURSIVE InsertSortedAscending(_, _)
InsertSortedAscending(sorted, e) ==
  IF sorted = <<>> THEN <<e>>
  ELSE IF RatLt(e.value, Head(sorted).value) THEN <<e>> \o sorted
  ELSE <<Head(sorted)>> \o InsertSortedAscending(Tail(sorted), e)

\* line 171: the comparator (valueB - valueA) puts a before b unless b is larger
RECURSIVE InsertSorted(_, _)
InsertSorted(sorted, e) ==
  IF sorted = <<>> THEN <<e>>
  ELSE IF RatLt(Head(sorted).value, e.value) THEN <<e>> \o sorted
  ELSE <<Head(sorted)>> \o InsertSorted(Tail(sorted), e)

\* line 171: Array.prototype.sort, a stable sort, descending by value
RECURSIVE SortDescending(_, _, _)
SortDescending(entries, i, sorted) ==
  IF i > Len(entries) THEN sorted
  ELSE SortDescending(entries, i + 1, InsertSorted(sorted, entries[i]))

\* line 172: .slice(0, 8)
TopBuckets(sorted) == Slice(sorted, 8)

\* line 173: the rounding of one trend value
RoundTrend(value) == ToFixed2(value)

\* lines 170-173
Trends(grouped) ==
  LET top == TopBuckets(SortDescending(grouped, 1, <<>>))
  IN [i \in 1..Len(top) |-> [label |-> top[i].key, value |-> RoundTrend(top[i].value)]]

\* lines 175-188
Insights(recs, dimensionKey, firstNumericKey, trends) ==
  LET best     == trends[1]
      trailing == trends[Len(trends)]
      leads ==
        IF Truthy(dimensionKey) /\ trends # <<>>
        THEN <<best.label \o LeadsOn
                 \o (IF firstNumericKey.ok THEN firstNumericKey.key ELSE PrimaryMetric)
                 \o WithText \o formatNumber(best.value) \o <<".">> >>
               \o (IF Len(trends) > 1
                   THEN <<trailing.label \o TrailsWith
                            \o formatNumber(trailing.value) \o <<".">> >>
                   ELSE <<>>)
        ELSE <<>>
      parsed == toNumber(Field(recs[Len(recs)], firstNumericKey.key))
      latest == IF parsed.ok THEN parsed.num ELSE Zero
      change ==
        IF Truthy(firstNumericKey)
        THEN <<describeChange(firstNumericKey.key, latest,
                              Average(recs, firstNumericKey.key))>>
        ELSE <<>>
  IN leads \o change

\* the header line counted as a row
RowCountLineWithHeader(recs) == NatToStr(Len(recs) + 1) \o RowsProcessed

\* line 191: `${records.length} rows processed.`
RowCountLine(recs) == NatToStr(Len(recs)) \o RowsProcessed

\* lines 190-196
SummaryLines(recs, numericFields, dimensionKey) ==
  LET measures == [i \in 1..Len(numericFields) |->
                     numericFields[i] \o TotalOpen
                       \o formatNumber(Total(recs, numericFields[i])) \o <<")">>]
  IN << RowCountLine(recs),
        IF Len(numericFields) # 0
        THEN KeyMeasures \o Join(measures, <<",", " ">>) \o <<".">>
        ELSE NoNumericMeasures,
        IF Truthy(dimensionKey)
        THEN PrimaryGrouping \o dimensionKey.key \o <<".">>
        ELSE NoCategorical >>

\* line 198
TableHeadersUnsliced(numericFields, dimensionKey) ==
  IF Truthy(dimensionKey)
  THEN <<dimensionKey.key>>
         \o (IF Len(numericFields) # 0 THEN <<numericFields[1]>> ELSE <<>>)
  ELSE numericFields
TableHeaders(numericFields, dimensionKey) ==
  IF Truthy(dimensionKey)
  THEN <<dimensionKey.key>>
         \o (IF Len(numericFields) # 0 THEN <<numericFields[1]>> ELSE <<>>)
  ELSE Slice(numericFields, 2)

\* the two slice(0, 6) left out: a row for every trend or record
TableRowsUnsliced(recs, dimensionKey, firstNumericKey, trends, tableHeaders) ==
  IF Truthy(dimensionKey) /\ Truthy(firstNumericKey)
  THEN [i \in 1..Len(trends) |->
          <<StrVal(trends[i].label), NumVal(ToFixed2(trends[i].value))>>]
  ELSE [i \in 1..Len(recs) |->
          [h \in 1..Len(tableHeaders) |->
             LET cell == Field(recs[i], tableHeaders[h])
             IN IF Nullish(cell) THEN StrVal(<<>>) ELSE cell]]

\* lines 199-209
TableRows(recs, dimensionKey, firstNumericKey, trends, tableHeaders) ==
  LET shown == Slice(trends, 6)
      raw   == Slice(recs, 6)
  IN IF Truthy(dimensionKey) /\ Truthy(firstNumericKey)
     THEN [i \in 1..Len(shown) |->
             <<StrVal(shown[i].label), NumVal(ToFixed2(shown[i].value))>>]
     ELSE [i \in 1..Len(raw) |->
             [h \in 1..Len(tableHeaders) |->
                LET cell == Field(raw[i], tableHeaders[h])
                IN IF Nullish(cell) THEN StrVal(<<>>) ELSE cell]]

\* lines 114-220: the path of a non-empty input
AnalyzeNonEmpty(recs) ==
  LET keys            == Classify(recs)
      numericFields   == keys.numericKeys
      dimensionKey    == First(keys.stringKeys)
      firstNumericKey == First(numericFields)
      trends          == Trends(GroupedBuckets(recs, dimensionKey, firstNumericKey))
      tableHeaders    == TableHeaders(numericFields, dimensionKey)
  IN [summary  |-> Join(SummaryLines(recs, numericFields, dimensionKey), <<" ">>),
      insights |-> Insights(recs, dimensionKey, firstNumericKey, trends),
      kpis     |-> Kpis(recs, numericFields, firstNumericKey),
      trends   |-> trends,
      table    |-> [headers |-> tableHeaders,
                    rows |-> TableRows(recs, dimensionKey, firstNumericKey,
                                       trends, tableHeaders)]]

\* the early return of lines 104-112 left out
analyzeRecordsNoEmptyCase(recs) == AnalyzeNonEmpty(recs)

analyzeRecords(recs) ==
  IF Len(recs) = 0 THEN EmptyResult ELSE AnalyzeNonEmpty(recs)

\* An element null of the records array (JSON.parse yields one for the
\* document [null]).
NullRecord == << [null |-> TRUE] >>
IsNullRecord(record) == Len(record) = 1 /\ DOMAIN record[1] = {"null"}

\* The names under which the empty object literal of line 161 inherits a
\* function from Object.prototype.  (__proto__, which it inherits as an
\* accessor, is outside the input domain of the model.)
InheritedNames ==
  { <<"c", "o", "n", "s", "t", "r", "u", "c", "t", "o", "r">>,
    <<"t", "o", "S", "t", "r", "i", "n", "g">>,
    <<"t", "o", "L", "o", "c", "a", "l", "e", "S", "t", "r", "i", "n", "g">>,
    <<"v", "a", "l", "u", "e", "O", "f">>,
    <<"h", "a", "s", "O", "w", "n", "P", "r", "o", "p", "e", "r", "t", "y">>,
    <<"i", "s", "P", "r", "o", "t", "o", "t", "y", "p", "e", "O", "f">>,
    <<"p", "r", "o", "p", "e", "r", "t", "y", "I", "s", "E", "n", "u", "m", "e", "r", "a", "b", "l", "e">>,
    <<"_", "_", "d", "e", "f", "i", "n", "e", "G", "e", "t", "t", "e", "r", "_", "_">>,
    <<"_", "_", "d", "e", "f", "i", "n", "e", "S", "e", "t", "t", "e", "r", "_", "_">>,
    <<"_", "_", "l", "o", "o", "k", "u", "p", "G", "e", "t", "t", "e", "r", "_", "_">>,
    <<"_", "_", "l", "o", "o", "k", "u", "p", "S", "e", "t", "t", "e", "r", "_", "_">> }

\* line 166 reads grouped[bucket]; for a label in InheritedNames that is the
\* inherited function, not undefined, so ?? keeps it, + concatenates and the
\* bucket holds a string; line 173 then calls value.toFixed on a string,
\* which raises a TypeError.  (The comparator of line 171 yields NaN for
\* that bucket; the inputs of the model have at most 8 buckets whenever a
\* label is in InheritedNames, so the bucket is never cut off by line 172.)
InheritedBucket(recs) ==
  /\ \E r \in 1..Len(recs) : \E i \in 1..Len(recs[r]) :
       recs[r][i].value.type = "string" /\ recs[r][i].value.str \in InheritedNames
  /\ LET dimensionKey == DimensionKey(recs)
     IN /\ Truthy(dimensionKey)
        /\ Truthy(FirstNumericKey(recs))
        /\ \E r \in 1..Len(recs) :
             LET cell == Field(recs[r], dimensionKey.key)
             IN ~Nullish(cell) /\ ToStr(cell) \in InheritedNames

\* line 118: Object.entries(record) raises a TypeError for a null record
\* (the loop of lines 117-126 visits every record); line 173 raises for a
\* bucket that holds a string.
Throws(recs) ==
  \/ \E r \in 1..Len(recs) : IsNullRecord(recs[r])
  \/ InheritedBucket(recs)

\* A call of analyzeRecords: it returns a result or it raises.
CallAnalyzeRecords(recs) ==
  IF Throws(recs) THEN [threw |-> TRUE]
  ELSE [threw |-> FALSE, value |-> analyzeRecords(recs)]


\* ------------------------------------------------------------------------
\* Inputs
\* ------------------------------------------------------------------------

\* Bounds of the input families
MaxTextLen == 5
MaxFieldLen == 3
MaxCols == 2
MaxRows == 10

SeqsUpTo(S, n) == UNION {[1..k -> S] : k \in 0..n}

\* CSV texts: every string up to MaxTextLen over a letter, the comma, the
\* double quote, the line feed and the space.
TextAlphabet == {"a", ",", "\"", "\n", " "}
CsvTexts == SeqsUpTo(TextAlphabet, MaxTextLen)

\* A field's content for the quoted-field inputs: no white space at either end
FieldAlphabet == {"a", ",", "\"", " "}
FieldTexts ==
  {f \in SeqsUpTo(FieldAlphabet, MaxFieldLen) : Trim(f) = f}

\* RFC 4180 encoding of a field: wrapped in quotes, inner quotes doubled
RECURSIVE DoubleQuotes(_)
DoubleQuotes(f) ==
  IF f = <<>> THEN <<>>
  ELSE (IF Head(f) = "\"" THEN <<"\"", "\"">> ELSE <<Head(f)>>) \o DoubleQuotes(Tail(f))

EncodeQuoted(f) == <<"\"">> \o DoubleQuotes(f) \o <<"\"">>

\* Column names c1, c2, ... of the quoted-field inputs
HeaderName(i) == <<"c">> \o NatToStr(i)

\* header c1..cn, one data row holding EncodeQuoted(f) in column col and x elsewhere
QuotedCsv(f, col, ncols) ==
  Join([i \in 1..ncols |-> HeaderName(i)], <<",">>)
    \o <<"\n">>
    \o Join([i \in 1..ncols |-> IF i = col THEN EncodeQuoted(f) ELSE <<"x">>], <<",">>)

\* One-record inputs: any subset of the key pool, inserted in pool order,
\* with any value of the value pool under each key.
KeyPool == << <<>>, <<"a">>, <<"7">>, <<"b">>, <<"c">> >>
ValuePool ==
  { StrVal(<<"5">>), StrVal(<<"x">>), StrVal(<<"-">>), NumVal(Rat(3, 2)) }

RECURSIVE BuildRecord(_, _, _, _)
BuildRecord(keep, valueOf, i, obj) ==
  IF i > Len(KeyPool) THEN obj
  ELSE BuildRecord(keep, valueOf, i + 1,
                   IF i \in keep THEN Put(obj, KeyPool[i], valueOf[i]) ELSE obj)

\* Two-column inputs of n rows: a label column g and a measure column m.
\* Row i has label number ((i - 1) % period) + 1; a label ends in "-" and so
\* does not parse as a number.
LabelOf(i) == NatToStr(i) \o <<"-">>
TallValues == { StrVal(<<"1", ".", "0", "0", "4">>), StrVal(<<"2", ".", "5">>) }
Periods(n) == {1, 2, n}

TallRecords(n, period, valueOf) ==
  [i \in 1..n |->
     Put(Put(<<>>, <<"g">>, StrVal(LabelOf(((i - 1) % period) + 1))),
         <<"m">>, valueOf[i])]

\* Inputs without a categorical column: n rows over up to three columns
\* whose values all parse.  Column m is in every row, column k in the odd
\* rows only, column n (a number, not a string) in every row.
PlainRecords(n, cols) ==
  [i \in 1..n |->
     LET withM == Put(<<>>, <<"m">>, StrVal(NatToStr(i)))
         withK == IF cols >= 2 /\ i % 2 = 1
                  THEN Put(withM, <<"k">>, StrVal(<<"x">>)) ELSE withM
     IN IF cols >= 3 THEN Put(withK, <<"n">>, NumVal(RatOfInt(i))) ELSE withK]

\* Heterogeneous records: keys present in some records only, a key whose
\* values parse in one record and not in another, an array-index key, the
\* empty key, values that are not strings.
MixedPool ==
  { Put(Put(<<>>, <<"g">>, StrVal(<<"a", "-">>)), <<"m">>, StrVal(<<"4">>)),
    Put(Put(<<>>, <<"m">>, StrVal(<<"-">>)), <<"g">>, StrVal(<<"2">>)),
    Put(<<>>, <<"k">>, StrVal(<<"1">>)),
    Put(Put(<<>>, <<"m">>, NumVal(Rat(3, 2))), <<"7">>, StrVal(<<"x", "-">>)),
    Put(Put(<<>>, <<>>, StrVal(<<"b", "-">>)), <<"m">>, StrVal(<<"2">>)),
    Put(Put(<<>>, <<"g">>, BoolVal(TRUE)), <<"m">>, NullVal) }
MaxMixed == 3

\* Elements of a decoded JSON array: null, an object without entries (a
\* number or a boolean element has no entries and no properties either),
\* objects with null, boolean and nested values.
JsonElements ==
  { NullRecord,
    <<>>,
    Put(Put(Put(<<>>, <<"k">>, NullVal), <<"b">>, BoolVal(TRUE)), <<"o">>, ObjectVal),
    Put(Put(<<>>, <<"g">>, StrVal(<<"a", "-">>)), <<"m">>, StrVal(<<"2">>)),
    Put(Put(<<>>, <<"g">>, NullVal), <<"m">>, NumVal(RatOfInt(3))),
    Put(Put(<<>>, <<"g">>, StrVal(<<"c", "o", "n", "s", "t", "r", "u", "c", "t", "o", "r">>)), <<"m">>, StrVal(<<"1">>)),
    Put(Put(<<>>, <<"g">>, StrVal(ProtoName)), <<"m">>, StrVal(<<"1">>)) }
MaxJson == 2

\* flows.test.ts 59-62: SAMPLE_CSV
SAMPLE_CSV ==
  <<"r", "e", "g", "i", "o", "n", ",", "u", "n", "i", "t", "s", ",",
    "t", "o", "t", "a", "l", "\n",
    "N", "o", "r", "t", "h", ",", "1", "0", ",", "2", "5", "0", "0", "\n",
    "S", "o", "u", "t", "h", ",", "5", ",", "1", "3", "0", "0", "\n",
    "N", "o", "r", "t", "h", ",", "8", ",", "2", "0", "0", "0">>

\* Requests of the mock API.  Clock readings of the calls.
Clock == {1, 2}
MaxChatRequests == 7
MaxAnalysisRequests == 3

Credentials == [username : {"agent", "Agent"}, password : {"openai123", ""}]

\* flows.test.ts 31: the message of the chat test
ChatTestMessage == <<"c", "a", "l", "c", "u", "l", "a", "t", "e", " ", "4", " ", "+", " ", "5">>

\* Chat messages: the test's, a blank one, one with "Fail" and one with
\* "crash", one without a tool, one with both tools, one with a division by
\* zero and an unknown city, and one of more than MaxTextLen + 265 characters.
ChatMessages ==
  { ChatTestMessage,
    <<" ", " ">>,
    <<"F", "a", "i", "l", " ", "4", " ", "+", " ", "5">>,
    <<"1", "*", "2", " ", "c", "r", "a", "s", "h">>,
    <<"h", "e", "l", "l", "o">>,
    <<"7", "*", "6", " ", "W", "e", "a", "t", "h", "e", "r", " ", "i", "n", " ", "S", "e", "a", "t", "t", "l", "e">>,
    <<"1", "/", "0", " ", "w", "e", "a", "t", "h", "e", "r", " ", "i", "n", " ", "p", "a", "r", "i", "s">>,
    <<"4", "+">> \o [i \in 1..(MaxTextLen + 265) |-> " "] \o <<"-", "2", ".", "5">> }
ChatPayloads == [message : ChatMessages, model : {"balanced"}]

\* JSON documents: [null], {} and [{"m":1}]
JsonNullArray == <<"[", "n", "u", "l", "l", "]">>
JsonEmptyObject == <<"{", "}">>
JsonOneRecord == <<"[", "{", "\"", "m", "\"", ":", "1", "}", "]">>

\* flows.test.ts 5-7: SAMPLE_DATA
SAMPLE_DATA ==
  <<"r", "e", "g", "i", "o", "n", ",", "u", "n", "i", "t", "s", ",", "t",
    "o", "t", "a", "l", "\n", "N", "o", "r", "t", "h", ",", "1", "0", ",",
    "2", "5", "0", "0", "\n", "W", "e", "s", "t", ",", "5", ",", "1", "8",
    "0", "0">>

\* A CSV text whose second data row has the label "constructor"
InheritedLabelCsv ==
  <<"g", ",", "m", "\n", "-", ",", "1", "\n", "c", "o", "n", "s", "t", "r",
    "u", "c", "t", "o", "r", ",", "2">>

AnalysisPayloads ==
  { [content |-> SAMPLE_DATA, fileType |-> "csv", model |-> "balanced"],
    [content |-> SAMPLE_DATA, fileType |-> "csv", model |-> "ultra-slow"],
    [content |-> SAMPLE_DATA, fileType |-> "json", model |-> "balanced"],
    [content |-> <<>>, fileType |-> "csv", model |-> "balanced"],
    [content |-> <<"g">>, fileType |-> "csv", model |-> "fast"],
    [content |-> InheritedLabelCsv, fileType |-> "csv", model |-> "balanced"],
    [content |-> JsonNullArray, fileType |-> "json", model |-> "balanced"],
    [content |-> JsonEmptyObject, fileType |-> "json", model |-> "balanced"],
    [content |-> JsonOneRecord, fileType |-> "json", model |-> "ultra-slow"] }

\* The record {price: "$12.50", qty: "bad"}
PriceQtyRecord ==
  Put(Put(<<>>, <<"p", "r", "i", "c", "e">>, StrVal(<<"$", "1", "2", ".", "5", "0">>)),
      <<"q", "t", "y">>, StrVal(<<"b", "a", "d">>))

\* ------------------------------------------------------------------------
\* The mock API (src/mocks/handlers.ts): text helpers
\* ------------------------------------------------------------------------

LowerCase ==
  <<"a", "b", "c", "d", "e", "f", "g", "h", "i", "j", "k", "l", "m", "n",
    "o", "p", "q", "r", "s", "t", "u", "v", "w", "x", "y", "z">>
UpperCase ==
  <<"A", "B", "C", "D", "E", "F", "G", "H", "I", "J", "K", "L", "M", "N",
    "O", "P", "Q", "R", "S", "T", "U", "V", "W", "X", "Y", "Z">>
Letters == {LowerCase[i] : i \in DOMAIN LowerCase} \cup {UpperCase[i] : i \in DOMAIN UpperCase}
SpaceChars == {" ", "\t", "\n", "\r"}

\* String.prototype.toLowerCase and toUpperCase, character by character
ToLowerChar(c) ==
  IF \E i \in DOMAIN UpperCase : UpperCase[i] = c
  THEN LowerCase[CHOOSE i \in DOMAIN UpperCase : UpperCase[i] = c] ELSE c
ToUpperChar(c) ==
  IF \E i \in DOMAIN LowerCase : LowerCase[i] = c
  THEN UpperCase[CHOOSE i \in DOMAIN LowerCase : LowerCase[i] = c] ELSE c
toLowerCase(s) == [i \in 1..Len(s) |-> ToLowerChar(s[i])]

\* word, given in lower case, occurs in s at index i in any mix of cases
\* (the flag i of a pattern)
OccursAt(s, i, word) ==
  /\ i + Len(word) - 1 <= Len(s)
  /\ \A k \in 1..Len(word) : ToLowerChar(s[i + k - 1]) = word[k]

\* A greedy run: the first index from i on whose character is not in class
RunEnd(s, i, class) ==
  IF i > Len(s) THEN i
  ELSE CHOOSE j \in i..(Len(s) + 1) :
         /\ \A k \in i..(j - 1) : s[k] \in class
         /\ j <= Len(s) => s[j] \notin class

\* -?\d+(?:\.\d+)? matched at index i: end is the index after the match.
\* Every quantifier is greedy and no shorter choice can make the rest of
\* the pattern match, so the greedy match is the only candidate.
NumberAt(s, i) ==
  LET start   == IF i <= Len(s) /\ s[i] = "-" THEN i + 1 ELSE i
      intEnd  == RunEnd(s, start, Digits)
      fracEnd == IF intEnd <= Len(s) /\ s[intEnd] = "."
                 THEN RunEnd(s, intEnd + 1, Digits) ELSE intEnd
  IN IF intEnd = start THEN [ok |-> FALSE]
     ELSE [ok |-> TRUE, end |-> IF fracEnd > intEnd + 1 THEN fracEnd ELSE intEnd]

\* line 44: the pattern number, white space, operator, white space, number
\* matched at index i
ArithmeticAt(s, i) ==
  LET left == NumberAt(s, i) IN
  IF ~left.ok THEN [ok |-> FALSE]
  ELSE
    LET opAt  == RunEnd(s, left.end, SpaceChars)
        rhsAt == RunEnd(s, opAt + 1, SpaceChars)
        right == NumberAt(s, rhsAt)
    IN IF opAt <= Len(s) /\ s[opAt] \in {"+", "-", "*", "/"} /\ right.ok
       THEN [ok |-> TRUE, left |-> SubSeq(s, i, left.end - 1), operator |-> s[opAt],
             right |-> SubSeq(s, rhsAt, right.end - 1)]
       ELSE [ok |-> FALSE]

\* line 44: input.match(...), the leftmost match
MatchArithmetic(s) ==
  IF \E i \in 1..Len(s) : ArithmeticAt(s, i).ok
  THEN ArithmeticAt(s, CHOOSE i \in 1..Len(s) :
                         /\ ArithmeticAt(s, i).ok
                         /\ \A j \in 1..(i - 1) : ~ArithmeticAt(s, j).ok)
  ELSE [ok |-> FALSE]

\* lines 49-67: the text for the operands a, b and the operator.  a / b
\* with b = 0 is made NaN by line 61, and no other result of the model is
\* non-finite.
Calculate(a, operator, b) ==
  LET failed == operator = "/" /\ b = Zero
      computed == CASE operator = "+" -> RatAdd(a, b)
                    [] operator = "-" -> RatSub(a, b)
                    [] operator = "*" -> RatMul(a, b)
                    [] operator = "/" -> IF failed THEN Zero ELSE RatDiv(a, b)
  IN IF failed
     THEN <<"C", "o", "m", "p", "u", "t", "a", "t", "i", "o", "n", " ", "f", "a", "i", "l", "e", "d", " ", "(", "d", "i", "v", "i", "d", "e", " ", "b", "y", " ", "z", "e", "r", "o", "?", ")", ".">>
     ELSE NumberToString(a) \o <<" ", operator, " ">>
            \o NumberToString(b) \o <<" ", "=", " ">>
            \o NumberToString(ToFixed2(computed))

\* lines 45-48: null without a match, else the text for the match's groups
CalculatorText(match) ==
  IF ~match.ok THEN [ok |-> FALSE]
  ELSE [ok  |-> TRUE,
        str |-> Calculate(JsNumber(match.left).num, match.operator,
                          JsNumber(match.right).num)]

\* lines 43-68; [ok |-> FALSE] stands for null
simulateCalculator(input) == CalculatorText(MatchArithmetic(input))

\* lines 7-23: weatherSnapshots[locationKey], rendered as by line 78
WeatherReport(locationKey) ==
  CASE locationKey = <<"s", "a", "n", " ", "f", "r", "a", "n", "c", "i", "s", "c", "o">> ->
         [ok |-> TRUE, str |->
           <<"F", "o", "g", "g", "y", " ", "m", "o", "r", "n", "i", "n",
             "g", " ", "c", "l", "e", "a", "r", "i", "n", "g", " ", "t",
             "o", " ", "s", "u", "n", " ", "i", "n", " ", "t", "h", "e",
             " ", "a", "f", "t", "e", "r", "n", "o", "o", "n", ".", " ",
             "C", "u", "r", "r", "e", "n", "t", "l", "y", " ", "6", "8",
             "Â", "°", "F", " ", "w", "i", "t", "h", " ", "h", "u", "m",
             "i", "d", "i", "t", "y", " ", "a", "t", " ", "7", "2", "%", ".">>]
    [] locationKey = <<"s", "e", "a", "t", "t", "l", "e">> ->
         [ok |-> TRUE, str |->
           <<"L", "i", "g", "h", "t", " ", "r", "a", "i", "n", " ", "w",
             "i", "t", "h", " ", "i", "n", "t", "e", "r", "m", "i", "t",
             "t", "e", "n", "t", " ", "c", "l", "e", "a", "r", " ", "p",
             "o", "c", "k", "e", "t", "s", ".", " ", "C", "u", "r", "r",
             "e", "n", "t", "l", "y", " ", "5", "8", "Â", "°", "F", " ",
             "w", "i", "t", "h", " ", "h", "u", "m", "i", "d", "i", "t",
             "y", " ", "a", "t", " ", "8", "0", "%", ".">>]
    [] locationKey = <<"l", "o", "n", "d", "o", "n">> ->
         [ok |-> TRUE, str |->
           <<"O", "v", "e", "r", "c", "a", "s", "t", " ", "w", "i", "t",
             "h", " ", "a", " ", "b", "r", "i", "e", "f", " ", "d", "r",
             "i", "z", "z", "l", "e", " ", "e", "x", "p", "e", "c", "t",
             "e", "d", " ", "a", "f", "t", "e", "r", " ", "l", "u", "n",
             "c", "h", ".", " ", "C", "u", "r", "r", "e", "n", "t", "l",
             "y", " ", "6", "1", "Â", "°", "F", " ", "w", "i", "t", "h",
             " ", "h", "u", "m", "i", "d", "i", "t", "y", " ", "a", "t",
             " ", "7", "7", "%", ".">>]
    [] OTHER -> [ok |-> FALSE]

\* line 71: /weather\s+in\s+([a-zA-Z\s]+)/i matched at index i.  After "in"
\* the white space run is taken greedily and the group takes the letters
\* and white space that follow; when none follow, the run gives its last
\* character back to the group if it has two or more.  The group, trimmed,
\* is then the run of letters and white space trimmed at its end.
WeatherAt(s, i) ==
  LET inAt   == RunEnd(s, i + 7, SpaceChars)
      gapAt  == inAt + 2
      nameAt == RunEnd(s, gapAt, SpaceChars)
      nameTo == RunEnd(s, nameAt, Letters \cup SpaceChars)
  IN IF /\ OccursAt(s, i, <<"w", "e", "a", "t", "h", "e", "r">>)
        /\ inAt > i + 7
        /\ OccursAt(s, inAt, <<"i", "n">>)
        /\ nameAt > gapAt
        /\ (nameTo > nameAt \/ nameAt > gapAt + 1)
     THEN [ok |-> TRUE, location |-> TrimEnd(SubSeq(s, nameAt, nameTo - 1))]
     ELSE [ok |-> FALSE]

\* line 71: message.match(...), the leftmost match
MatchWeather(s) ==
  IF \E i \in 1..Len(s) : WeatherAt(s, i).ok
  THEN WeatherAt(s, CHOOSE i \in 1..Len(s) :
                      /\ WeatherAt(s, i).ok
                      /\ \A j \in 1..(i - 1) : ~WeatherAt(s, j).ok)
  ELSE [ok |-> FALSE]

\* lines 72-78: null without a match, else the text for the location
WeatherText(locationMatch) ==
  IF ~locationMatch.ok THEN [ok |-> FALSE]
  ELSE
    LET snapshot == WeatherReport(toLowerCase(locationMatch.location))
    IN [ok  |-> TRUE,
        str |-> IF snapshot.ok THEN snapshot.str
                ELSE <<"N", "o", " ", "w", "e", "a", "t", "h", "e", "r", " ", "d", "a", "t", "a", " ", "f", "o", "r", " ">>
                       \o locationMatch.location \o <<".">>]

\* lines 70-79; [ok |-> FALSE] stands for null
simulateWeatherLookup(message) == WeatherText(MatchWeather(message))

\* lines 28-30
formatToolCall(tool, toolContent) ==
  <<"T", "o", "o", "l", "(">> \o tool \o <<")", " ", "=", ">", " ">> \o toolContent

\* lines 32-41
buildLongResponse(core) ==
  core
    \o <<"\n", "\n">>
    \o
      <<"T", "o", " ", "k", "e", "e", "p", " ", "t", "h", "e", " ", "c",
        "o", "n", "v", "e", "r", "s", "a", "t", "i", "o", "n", " ", "p",
        "r", "o", "d", "u", "c", "t", "i", "v", "e", ",", " ", "I", " ",
        "c", "h", "a", "i", "n", "e", "d", " ", "a", " ", "c", "r", "e",
        "a", "t", "i", "v", "e", " ", "i", "d", "e", "a", "t", "i", "o",
        "n", " ", "p", "a", "s", "s", " ", "w", "i", "t", "h", " ", "a",
        " ", "p", "r", "a", "g", "m", "a", "t", "i", "c", " ", "r", "e",
        "v", "i", "e", "w", " ", "s", "t", "a", "g", "e", ".">>
    \o
      <<" ", "T", "h", "e", " ", "c", "r", "e", "a", "t", "i", "v", "e",
        " ", "m", "o", "d", "e", "l", " ", "o", "u", "t", "l", "i", "n",
        "e", "d", " ", "p", "o", "s", "s", "i", "b", "i", "l", "i", "t",
        "i", "e", "s", ",", " ", "w", "h", "i", "l", "e", " ", "t", "h",
        "e", " ", "a", "n", "a", "l", "y", "s", "t", " ", "m", "o", "d",
        "e", "l", " ", "t", "r", "i", "m", "m", "e", "d", " ", "t", "h",
        "e", "m", " ", "t", "o", " ", "t", "h", "e", " ", "e", "s", "s",
        "e", "n", "t", "i", "a", "l", "s", ".">>
    \o <<"\n", "\n">>
    \o
      <<"I", "f", " ", "y", "o", "u", " ", "n", "e", "e", "d", " ", "t",
        "o", " ", "g", "o", " ", "d", "e", "e", "p", "e", "r", ",", " ",
        "a", "s", "k", " ", "f", "o", "r", " ", "a", " ", "f", "o", "l",
        "l", "o", "w", "-", "u", "p", " ", "r", "e", "p", "o", "r", "t",
        " ", "a", "n", "d", " ", "I", " ", "c", "a", "n", " ", "e", "x",
        "p", "a", "n", "d", " ", "w", "i", "t", "h", " ", "a", "d", "d",
        "i", "t", "i", "o", "n", "a", "l", " ", "s", "t", "r", "u", "c",
        "t", "u", "r", "e", "d", " ", "t", "a", "b", "l", "e", "s", " ",
        "o", "r", " ", "t", "i", "m", "e", "l", "i", "n", "e", " ", "b",
        "r", "e", "a", "k", "d", "o", "w", "n", "s", ".">>

\* ------------------------------------------------------------------------
\* The mock API (src/mocks/handlers.ts): the resolvers.  A resolver's result
\* is a record with the fields the code returns (status, delayMs, body).
\* Texts that the code only copies or compares as a whole (messages, roles,
\* labels, names, model tiers) are written as strings; texts it inspects or
\* builds are sequences of characters.  now is the clock reading of a call.
\* ------------------------------------------------------------------------

USERNAME == "agent"
PASSWORD == "openai123"

\* line 108: /fail|crash/i.test(text)
FailOrCrash(text) ==
  \E i \in 1..Len(text) :
    \/ OccursAt(text, i, <<"f", "a", "i", "l">>)
    \/ OccursAt(text, i, <<"c", "r", "a", "s", "h">>)

\* line 115: text.replace(/^[a-z]/, (match) => match.toUpperCase())
CapitalizeFirst(text) ==
  IF text = <<>> THEN text ELSE <<ToUpperChar(text[1])>> \o Tail(text)

\* line 159 without Math.min
TotalTokensUncapped(text) == 150 + Len(text) * 4

\* line 159: Math.min(1200, 150 + text.length * 4)
TotalTokens(text) ==
  IF 150 + Len(text) * 4 < 1200 THEN 150 + Len(text) * 4 ELSE 1200

\* lines 109-165: the answer for the trimmed message text and the outputs
\* of the two tools
ChatAnswer(text, calculatorOutput, weatherOutput, model, now) ==
    LET creativeIdea     == <<"C", "r", "e", "a", "t", "i", "v", "e", " ", "t", "a", "k", "e", ":", " ">> \o CapitalizeFirst(text) \o <<".">>
        toolCalls ==
          (IF calculatorOutput.ok
           THEN <<formatToolCall(<<"c", "a", "l", "c", "u", "l", "a", "t", "o", "r">>, calculatorOutput.str)>>
           ELSE <<>>)
          \o (IF weatherOutput.ok
              THEN <<formatToolCall(<<"w", "e", "a", "t", "h", "e", "r">>, weatherOutput.str)>>
              ELSE <<>>)
        refined ==
          <<"R", "e", "f", "i", "n", "e", "d", " ", "a", "n", "s", "w", "e", "r", ":">>
            \o (IF calculatorOutput.ok
                THEN <<" ", "U", "s", "i", "n", "g", " ", "c", "a", "l", "c", "u", "l", "a", "t", "o", "r", " ", "i", "n", "s", "i", "g", "h", "t", "s", " ", "(">>
                       \o calculatorOutput.str \o <<")", ".">>
                ELSE <<>>)
            \o (IF weatherOutput.ok
                THEN <<" ", "I", "n", "c", "l", "u", "d", "e", "d", " ", "l", "a", "t", "e", "s", "t", " ", "w", "e", "a", "t", "h", "e", "r", ":", " ">>
                       \o weatherOutput.str
                ELSE <<>>)
            \o
              <<" ", "F", "i", "n", "a", "l", " ", "r", "e", "c", "o", "m",
                "m", "e", "n", "d", "a", "t", "i", "o", "n", ":", " ", "s",
                "t", "a", "y", " ", "o", "u", "t", "c", "o", "m", "e", "-",
                "d", "r", "i", "v", "e", "n", " ", "a", "n", "d", " ", "c",
                "a", "p", "t", "u", "r", "e", " ", "f", "o", "l", "l", "o",
                "w", "-", "u", "p", " ", "a", "c", "t", "i", "o", "n", "s",
                ".">>
        stamp == NatToStr(now)
    IN [delayMs |-> IF Len(text) > 40 THEN 850 ELSE 450,
        body |->
          [steps |->
             << [id |-> <<"c", "r", "e", "a", "t", "i", "v", "e", "-">> \o stamp,
                 role |-> "assistant", label |-> "Creative draft",
                 content |-> creativeIdea] >>
             \o (IF toolCalls # <<>>
                 THEN << [id |-> <<"t", "o", "o", "l", "-">> \o stamp,
                          role |-> "tool", label |-> "Tools",
                          content |-> Join(toolCalls, <<"\n">>)] >>
                 ELSE <<>>)
             \o << [id |-> <<"r", "e", "f", "i", "n", "e", "-">> \o stamp,
                    role |-> "assistant", label |-> "Refined answer",
                    content |-> buildLongResponse(refined)] >>,
           usage |->
             [totalTokens |-> TotalTokens(text),
              model       |-> model,
              latencyMs   |-> IF Len(text) > 40 THEN 820 ELSE 420]]]

\* lines 94-108: the message is trimmed and rejected when it is empty or
\* asks for a failure
ChatText(text, model, now) ==
  IF text = <<>>
  THEN [status |-> 400, body |-> [message |-> "Message must not be empty."]]
  ELSE IF FailOrCrash(text)
  THEN [status |-> 500, body |-> [message |-> "Mock model failure triggered."]]
  ELSE ChatAnswer(text, simulateCalculator(text), simulateWeatherLookup(text),
                  model, now)

\* lines 94-165: the chat resolver from the payload on
ChatReply(payload, now) == ChatText(Trim(payload.message), payload.model, now)

\* The replies to the chat requests of the model, computed once: the
\* function that maps <<payload, now>> in calls to ChatReply(payload, now)
RECURSIVE TabulateChatReply(_)
TabulateChatReply(calls) ==
  IF calls = {} THEN [call \in {} |-> call]
  ELSE LET call == CHOOSE c \in calls : TRUE
       IN (call :> ChatReply(call[1], call[2])) @@ TabulateChatReply(calls \ {call})
ChatReplies == TabulateChatReply(ChatPayloads \X Clock)

\* the rate limit on every fifth request instead
ChatResolverEveryFifth(payload, now, count) ==
  IF count % 5 = 0
  THEN [status |-> 429,
        body |-> [message |-> "Rate limit reached. Please retry in a few seconds."]]
  ELSE ChatReplies[<<payload, now>>]

\* lines 85-92, then ChatReply: count is dailyChatRequests after line 85
ChatResolver(payload, now, count) ==
  IF count % 7 = 0
  THEN [status |-> 429,
        body |-> [message |-> "Rate limit reached. Please retry in a few seconds."]]
  ELSE ChatReplies[<<payload, now>>]

\* the password left unchecked
LoginResolverUsernameOnly(credentials, now, chatRequests, analysisRuns) ==
  IF credentials.username # USERNAME
  THEN [status |-> 401,
        body |-> [message |-> "Invalid credentials. Use agent / openai123."]]
  ELSE [delayMs |-> 600,
        body |->
          [token |-> "mock-token-123",
           user  |-> [id |-> "demo-user", name |-> "Avery Agent",
                      title |-> "AI Automation Lead",
                      organization |-> "Evolve Analytics"],
           stats |-> [chatRequests |-> chatRequests, analysisRuns |-> analysisRuns,
                      lastLogin |-> now]]]

\* lines 175-201: the stats are the two counters; lastLogin is the instant
\* of the call (its ISO 8601 rendering is not modelled)
LoginResolver(credentials, now, chatRequests, analysisRuns) ==
  IF credentials.username # USERNAME \/ credentials.password # PASSWORD
  THEN [status |-> 401,
        body |-> [message |-> "Invalid credentials. Use agent / openai123."]]
  ELSE [delayMs |-> 600,
        body |->
          [token |-> "mock-token-123",
           user  |-> [id |-> "demo-user", name |-> "Avery Agent",
                      title |-> "AI Automation Lead",
                      organization |-> "Evolve Analytics"],
           stats |-> [chatRequests |-> chatRequests, analysisRuns |-> analysisRuns,
                      lastLogin |-> now]]]

\* line 262: JSON.parse of the JSON documents of the model; any other content
\* of the model is not a JSON text and makes JSON.parse raise SyntaxError.
JsonParse(text) ==
  CASE text = JsonNullArray -> [ok |-> TRUE, isArray |-> TRUE, value |-> <<NullRecord>>]
    [] text = JsonEmptyObject -> [ok |-> TRUE, isArray |-> FALSE]
    [] text = JsonOneRecord ->
         [ok |-> TRUE, isArray |-> TRUE,
          value |-> << Put(<<>>, <<"m">>, NumVal(RatOfInt(1))) >>]
    [] OTHER -> [ok |-> FALSE]

\* lines 276-283: the envelope for the result of analyzeRecords; when
\* analyzeRecords raises, so does the resolver
AnalysisEnvelope(call, model) ==
  IF call.threw THEN [threw |-> TRUE]
  ELSE [delayMs |-> 750,
        body |-> [result |-> call.value,
                  model  |-> model,
                  largeNarrative |-> buildLongResponse(call.value.summary)]]

\* lines 259-285: the analysis resolver from the decoding on.  A call of
\* analyzeRecords that raises makes the resolver raise: it has no result.
AnalysisReply(payload) ==
  LET parsed == JsonParse(payload.content) IN
  IF payload.fileType = "json" /\ ~parsed.ok
  THEN [status |-> 400, body |-> [message |-> "Invalid JSON."]]
  ELSE AnalysisEnvelope(
         CallAnalyzeRecords(
           IF payload.fileType = "json"
           THEN (IF parsed.isArray THEN parsed.value ELSE <<>>)
           ELSE parseCsv(payload.content)),
         payload.model)

\* The replies to the analysis requests of the model, computed once
AnalysisReplies == [payload \in AnalysisPayloads |-> AnalysisReply(payload)]

\* lines 241-257, then AnalysisReply: count is dailyAnalysisRequests after
\* line 242
AnalysisResolver(payload, count) ==
  IF payload.content = <<>>
  THEN [status |-> 400, body |-> [message |-> "No content detected."]]
  ELSE IF payload.model = "ultra-slow" /\ count % 3 = 0
  THEN [status |-> 503,
        body |-> [message |-> "Model temporarily overloaded. Try a faster tier."]]
  ELSE AnalysisReplies[payload]

\* ------------------------------------------------------------------------
\* The state machine: a caller hands a CSV text to parseCsv and the records
\* to analyzeRecords, or hands decoded records to analyzeRecords directly.
\* ------------------------------------------------------------------------

NoResult ==
  [summary  |-> <<>>, insights |-> <<>>, kpis |-> <<>>, trends |-> <<>>,
   table    |-> [headers |-> <<>>, rows |-> <<>>]]

\* No request has reached the mock API
NoRequest == [none |-> TRUE]
MockIdle ==
  /\ dailyChatRequests = 0
  /\ dailyAnalysisRequests = 0
  /\ request = NoRequest
  /\ response = NoRequest
  /\ received = [chat |-> 0, analysis |-> 0]
  /\ firstServed = NoRequest

\* No call of fetchWithTimeout is in progress
FetchIdle ==
  /\ config = NoRequest
  /\ attempt = 0
  /\ lastError = NoRequest
  /\ controllerAborted = FALSE
  /\ externalAborted = FALSE
  /\ combinedAborted = FALSE
  /\ timeoutId = "none"
  /\ outcome = "none"
  /\ fetchLog = NoRequest

\* No store has been created
StoreIdle ==
  /\ storage = NoRequest
  /\ state = NoRequest

ClientIdle == FetchIdle /\ StoreIdle

InitCsv(text, info) ==
  /\ MockIdle
  /\ ClientIdle
  /\ content = text
  /\ records = <<>>
  /\ result = NoResult
  /\ pc = "csv"
  /\ probe = info

InitRecords(recs, info) ==
  /\ MockIdle
  /\ ClientIdle
  /\ content = <<>>
  /\ records = recs
  /\ result = NoResult
  /\ pc = "records"
  /\ probe = info

Init ==
  \/ \E text \in CsvTexts : InitCsv(text, [kind |-> "text"])
  \/ \E ncols \in 1..MaxCols : \E col \in 1..ncols : \E f \in FieldTexts :
       InitCsv(QuotedCsv(f, col, ncols),
               [kind |-> "quoted", field |-> f, col |-> col, ncols |-> ncols])
  \/ InitCsv(SAMPLE_CSV, [kind |-> "scenarioA"])
  \/ \E keep \in SUBSET (1..Len(KeyPool)) : \E valueOf \in [1..Len(KeyPool) -> ValuePool] :
       /\ \A i \in 1..Len(KeyPool) : i \notin keep => valueOf[i] = StrVal(<<"5">>)
       /\ InitRecords(<<BuildRecord(keep, valueOf, 1, <<>>)>>, [kind |-> "wide"])
  \/ \E n \in 0..MaxRows : \E period \in Periods(n) : \E valueOf \in [1..n -> TallValues] :
       InitRecords(TallRecords(n, period, valueOf), [kind |-> "tall", period |-> period])
  \/ InitRecords(<<PriceQtyRecord>>, [kind |-> "scenarioB"])
  \/ \E n \in 1..MaxRows : \E cols \in 1..3 :
       InitRecords(PlainRecords(n, cols), [kind |-> "plain", cols |-> cols])
  \/ \E recs \in SeqsUpTo(MixedPool, MaxMixed) :
       InitRecords(recs, [kind |-> "mixed"])
  \/ \E recs \in SeqsUpTo(JsonElements, MaxJson) :
       InitRecords(recs, [kind |-> "json"])

\* The caller runs parseCsv on the text (handlers.ts / analysis-panel.tsx).
ParseCsv ==
  /\ pc = "csv"
  /\ records' = parseCsv(content)
  /\ pc' = "records"
  /\ UNCHANGED <<content, result, probe, mockVars, fetchVars, storeVars>>

\* The caller runs analyzeRecords on the records; a call that raises leaves
\* no result.
AnalyzeRecords ==
  /\ pc = "records"
  /\ LET call == CallAnalyzeRecords(records)
     IN IF call.threw
        THEN pc' = "threw" /\ result' = result
        ELSE pc' = "done" /\ result' = call.value
  /\ UNCHANGED <<content, records, probe, mockVars, fetchVars, storeVars>>

Next == ParseCsv \/ AnalyzeRecords

Spec == Init /\ [][Next]_vars

\* ------------------------------------------------------------------------
\* The mock API as a state machine: the two module-level counters
\* (handlers.ts 25-26), the request being answered and the resolver's
\* result for it.  received counts the requests that arrived at the chat
\* and the analysis endpoint; firstServed remembers the first chat or
\* analysis request of the run with its status and message content.
\* ------------------------------------------------------------------------

\* The status of the HTTP response made from a resolver's result: the
\* result's status, 200 when it has none
StatusOf(res) == IF "status" \in DOMAIN res THEN res.status ELSE 200

\* What a client sees of a resolver's result: that the resolver raised, or
\* the status with the message content (the error message, the contents of
\* the chat steps, or the analysis envelope)
Outcome(res) ==
  IF "threw" \in DOMAIN res THEN [raised |-> TRUE]
  ELSE [status  |-> StatusOf(res),
        message |-> IF "steps" \in DOMAIN res.body
                    THEN [i \in 1..Len(res.body.steps) |-> res.body.steps[i].content]
                    ELSE res.body]

Serve(req, res) ==
  /\ request' = req
  /\ response' = res
  /\ firstServed' =
       IF firstServed = NoRequest /\ req.path # "/api/auth/login"
       THEN [request |-> req, outcome |-> Outcome(res)]
       ELSE firstServed
  /\ UNCHANGED <<content, records, result, pc, probe, fetchVars, storeVars>>

\* POST /api/auth/login
Login ==
  /\ pc = "mock"
  /\ \E credentials \in Credentials : \E now \in Clock :
       Serve([path |-> "/api/auth/login", body |-> credentials],
             LoginResolver(credentials, now, dailyChatRequests, dailyAnalysisRequests))
  /\ UNCHANGED <<dailyChatRequests, dailyAnalysisRequests, received>>

\* POST /api/chat
Chat ==
  /\ pc = "mock"
  /\ dailyChatRequests < MaxChatRequests
  /\ dailyChatRequests' = dailyChatRequests + 1
  /\ received' = [received EXCEPT !.chat = @ + 1]
  /\ \E payload \in ChatPayloads : \E now \in Clock :
       Serve([path |-> "/api/chat", body |-> payload],
             ChatResolver(payload, now, dailyChatRequests'))
  /\ UNCHANGED dailyAnalysisRequests

\* POST /api/analysis
Analysis ==
  /\ pc = "mock"
  /\ dailyAnalysisRequests < MaxAnalysisRequests
  /\ dailyAnalysisRequests' = dailyAnalysisRequests + 1
  /\ received' = [received EXCEPT !.analysis = @ + 1]
  /\ \E payload \in AnalysisPayloads :
       Serve([path |-> "/api/analysis", body |-> payload],
             AnalysisResolver(payload, dailyAnalysisRequests'))
  /\ UNCHANGED dailyChatRequests

MockInit ==
  /\ MockIdle
  /\ ClientIdle
  /\ content = <<>>
  /\ records = <<>>
  /\ result = NoResult
  /\ pc = "mock"
  /\ probe = [kind |-> "mock"]

MockNext == Login \/ Chat \/ Analysis

MockSpec == MockInit /\ [][MockNext]_vars

\* ------------------------------------------------------------------------
\* Properties
\* ------------------------------------------------------------------------

\* A line of RFC 4180 fields: each field is either free of double quotes or
\* wrapped in double quotes with every inner quote doubled.  The scan is at
\* position i in state st: "start" (at the start of a field), "plain" (in an
\* unquoted field), "quoted" (in a quoted field) or "closed" (after the
\* closing quote).
RECURSIVE WellFormedFrom(_, _, _)
WellFormedFrom(line, i, st) ==
  IF i > Len(line) THEN st # "quoted"
  ELSE
    LET c == line[i] IN
    CASE st = "start" ->
           IF c = "\"" THEN WellFormedFrom(line, i + 1, "quoted")
           ELSE IF c = "," THEN WellFormedFrom(line, i + 1, "start")
           ELSE WellFormedFrom(line, i + 1, "plain")
      [] st = "plain" ->
           IF c = "\"" THEN FALSE
           ELSE IF c = "," THEN WellFormedFrom(line, i + 1, "start")
           ELSE WellFormedFrom(line, i + 1, "plain")
      [] st = "quoted" ->
           IF c = "\"" /\ i + 1 <= Len(line) /\ line[i + 1] = "\""
           THEN WellFormedFrom(line, i + 2, "quoted")
           ELSE IF c = "\"" THEN WellFormedFrom(line, i + 1, "closed")
           ELSE WellFormedFrom(line, i + 1, "quoted")
      [] st = "closed" ->
           IF c = "," THEN WellFormedFrom(line, i + 1, "start") ELSE FALSE

WellFormedCsv(text) ==
  LET lines == NonBlankLines(text)
  IN \A i \in 1..Len(lines) : WellFormedFrom(lines[i], 1, "start")

\* The non-blank lines after the header
DataLines(text) ==
  LET lines == NonBlankLines(text)
  IN IF lines = <<>> THEN <<>> ELSE Tail(lines)

\* C1: for every well-formed CSV text with N non-blank lines after the header
\* line, parseCsv returns exactly N records, the i-th one made from the i-th
\* data line (0 records for an empty or header-only text).
C1_RecordPerDataRow ==
  (pc = "records" /\ probe.kind = "text" /\ WellFormedCsv(content)) =>
    LET lines   == NonBlankLines(content)
        data    == DataLines(content)
        headers == parseCsvLine(lines[1])
    IN /\ Len(records) = Len(data)
       /\ \A i \in 1..Len(data) :
            records[i] = MakeRow(headers, parseCsvLine(data[i]), 1, <<>>)

\* C2: a field text without white space at its ends, wrapped in double quotes
\* with its inner quotes doubled and placed in any column of the data row,
\* comes back as the value of that column in the one record parsed.
C2_QuotedFieldRoundTrip ==
  (pc = "records" /\ probe.kind = "quoted") =>
    /\ Len(records) = 1
    /\ Field(records[1], HeaderName(probe.col)) = StrVal(probe.field)

\* C3: analyzeRecords of the empty sequence returns the fixed result: the
\* "No rows detected" summary, the single upload insight, no kpis, no
\* trends and an empty table.
C3_EmptyInputResult ==
  (pc = "done" /\ Len(records) = 0) =>
    /\ result.summary = NoRowsSummary
    /\ Len(result.insights) = 1
    /\ result.insights[1] = UploadInsight
    /\ result.kpis = <<>>
    /\ result.trends = <<>>
    /\ result.table.headers = <<>>
    /\ result.table.rows = <<>>

C3_Witness ==
  pc = "done" /\ Len(records) = 0 /\ probe.kind = "text" /\ Len(content) = MaxTextLen

\* The longest prefix of s made of digits
RECURSIVE LeadingDigits(_)
LeadingDigits(s) ==
  IF s = <<>> \/ Head(s) \notin Digits THEN <<>>
  ELSE <<Head(s)>> \o LeadingDigits(Tail(s))

\* C4: for a non-empty input of n records the summary starts with the
\* decimal integer n (no leading zero) followed by " rows processed.".
C4_SummaryLeadsWithRowCount ==
  (pc = "done" /\ Len(records) > 0) =>
    LET d == LeadingDigits(result.summary)
    IN /\ d # <<>>
       /\ (Len(d) > 1 => d[1] # "0")
       /\ DigitsToNat(d) = Len(records)
       /\ Len(result.summary) >= Len(d) + Len(RowsProcessed)
       /\ SubSeq(result.summary, Len(d) + 1, Len(d) + Len(RowsProcessed)) = RowsProcessed

C4_Witness ==
  /\ pc = "done"
  /\ Len(records) = MaxRows
  /\ Len(LeadingDigits(result.summary)) = 2

\* C6: the kpis list has at most 4 entries.
C6_AtMostFourKpis == pc = "done" => Len(result.kpis) <= 4

C6_Witness ==
  pc = "done" /\ Len(NumericFields(records)) > 4 /\ Len(result.kpis) = 4

Min(a, b) == IF a < b THEN a ELSE b

\* C7: for a non-empty input the kpis are "Total <field>" for each of the
\* first min(3, |numericFields|) numeric fields in order, followed by one
\* "Average <first numeric field>" entry whenever a numeric field exists,
\* whatever the column names are.
C7_KpiLabels ==
  (pc = "done" /\ Len(records) > 0) =>
    LET nf == NumericFields(records)
        k  == Min(3, Len(nf))
    IN /\ Len(result.kpis) = k + (IF Len(nf) > 0 THEN 1 ELSE 0)
       /\ \A i \in 1..k : result.kpis[i].label = TotalPrefix \o nf[i]
       /\ Len(nf) > 0 => result.kpis[Len(result.kpis)].label = AveragePrefix \o nf[1]

\* C8: the trends list has at most 8 entries and is sorted non-increasing
\* by (rounded) value.
C8_TrendsBoundedAndSorted ==
  pc = "done" =>
    /\ Len(result.trends) <= 8
    /\ \A i \in 1..(Len(result.trends) - 1) :
         RatLe(result.trends[i + 1].value, result.trends[i].value)

\* more than 8 buckets, cut to 8 trends that are not all equal, one of them
\* (a single 1.004) rounded to 1
C8_Witness ==
  /\ pc = "done"
  /\ probe.kind = "tall"
  /\ probe.period > 8
  /\ Len(records) = probe.period
  /\ Len(result.trends) = 8
  /\ result.trends[1].value # result.trends[8].value
  /\ result.trends[8].value = RatOfInt(1)

Region == <<"r", "e", "g", "i", "o", "n">>
Units == <<"u", "n", "i", "t", "s">>
TotalColumn == <<"t", "o", "t", "a", "l">>
North == <<"N", "o", "r", "t", "h">>
South == <<"S", "o", "u", "t", "h">>

Price == <<"p", "r", "i", "c", "e">>
Qty == <<"q", "t", "y">>

\* C10: Scenario B (the single record {price: "$12.50", qty: "bad"}): price
\* is numeric with value 12.5, qty (a string without a digit) does not parse
\* and is categorical, not numeric.
C10_ScenarioB ==
  (pc = "done" /\ probe.kind = "scenarioB") =>
    /\ toNumber(Field(records[1], Price)) = [ok |-> TRUE, num |-> Rat(25, 2)]
    /\ ~toNumber(Field(records[1], Qty)).ok
    /\ NumericFields(records) = <<Price>>
    /\ DimensionKey(records) = [ok |-> TRUE, key |-> Qty]

\* A column is categorical when some record holds a string under it that
\* toNumber rejects.
NoCategoricalColumn(recs) ==
  \A r \in 1..Len(recs) : \A i \in 1..Len(recs[r]) :
    ~(recs[r][i].value.type = "string" /\ ~toNumber(recs[r][i].value).ok)

\* C11: Scenario C.  For a non-empty input without a categorical column the
\* result has no trends, the table headers are the first min(2, number of
\* numeric fields) numeric field names, and the table rows are the first
\* min(6, n) input records in input order, each row holding the record's
\* values under those headers (the empty string where the record has none).
C11_ScenarioC ==
  (pc = "done" /\ Len(records) > 0 /\ NoCategoricalColumn(records)) =>
    LET numericFields == NumericFields(records)
        headers       == result.table.headers
        rows          == result.table.rows
    IN /\ result.trends = <<>>
       /\ Len(headers) = Min(2, Len(numericFields))
       /\ \A h \in 1..Len(headers) : headers[h] = numericFields[h]
       /\ Len(rows) = Min(6, Len(records))
       /\ \A i \in 1..Len(rows) :
            /\ Len(rows[i]) = Len(headers)
            /\ \A h \in 1..Len(headers) :
                 LET got == Get(records[i], headers[h])
                 IN rows[i][h] = IF got.ok /\ ~Nullish(got.value)
                                 THEN got.value ELSE StrVal(<<>>)

\* Ten rows over three numeric columns, the second absent from the even rows
C11_Witness ==
  /\ pc = "done"
  /\ probe.kind = "plain"
  /\ Len(records) = 10
  /\ NoCategoricalColumn(records)
  /\ Len(NumericFields(records)) = 3
  /\ result.table.headers = << <<"m">>, <<"k">> >>
  /\ Len(result.table.rows) = 6
  /\ result.table.rows[2] = <<StrVal(<<"2">>), StrVal(<<>>)>>

\* C12: neither parseCsv nor analyzeRecords ever raises: every call returns
\* a value, whatever the records array holds.
C12_NeverThrows == pc # "threw"

\* The field lists of the data lines that yield a record (line 24 skips a
\* line without values), in order
RECURSIVE KeptValues(_, _)
KeptValues(lines, index) ==
  IF index > Len(lines) THEN <<>>
  ELSE LET values == parseCsvLine(lines[index])
       IN (IF values = <<>> THEN <<>> ELSE <<values>>) \o KeptValues(lines, index + 1)

\* The records of this state were made by parseCsv from the text
FromCsv == pc \in {"records", "done"} /\ probe.kind \in {"text", "quoted", "scenarioA"}

\* The i-th field of a row, the empty string when the row is shorter
FieldAt(values, i) == StrVal(IF i <= Len(values) THEN values[i] ELSE <<>>)

KeySet(record) == {record[i].key : i \in 1..Len(record)}

Entries(recs) ==
  UNION {{<<r, i>> : i \in 1..Len(recs[r])} : r \in 1..Len(recs)}
Before(p, q) == p[1] < q[1] \/ (p[1] = q[1] /\ p[2] < q[2])

\* The entries of a key whose value parses, and those whose value is a
\* string that does not parse
ParsingEntries(recs, key) ==
  {p \in Entries(recs) :
     recs[p[1]][p[2]].key = key /\ toNumber(recs[p[1]][p[2]].value).ok}
StringEntries(recs, key) ==
  {p \in Entries(recs) :
     /\ recs[p[1]][p[2]].key = key
     /\ recs[p[1]][p[2]].value.type = "string"
     /\ ~toNumber(recs[p[1]][p[2]].value).ok}
AllKeys(recs) == {recs[p[1]][p[2]].key : p \in Entries(recs)}

\* keys lists, without repetition, the keys that have an entry in hits(key),
\* in the order in which their first such entry is scanned
ListedByFirstEntry(keys, recs, hits(_, _)) ==
  /\ {keys[a] : a \in 1..Len(keys)} = {k \in AllKeys(recs) : hits(recs, k) # {}}
  /\ \A a, b \in 1..Len(keys) :
       a < b => \E p \in hits(recs, keys[a]) :
                  \A q \in hits(recs, keys[b]) : Before(p, q)

\* C18: classification is a global OR over the rows.  numericFields lists
\* the keys with at least one parsing value, in order of first parse;
\* the categorical keys are those with at least one string value that does
\* not parse, in order of first such value; a key may be in both lists;
\* dimensionKey is the first categorical key and the primary measure the
\* first numeric key (undefined when there is none).
C18_GlobalOrClassification ==
  pc = "done" =>
    LET keys          == Classify(records)
        numericFields == keys.numericKeys
        stringKeys    == keys.stringKeys
    IN /\ ListedByFirstEntry(numericFields, records, ParsingEntries)
       /\ ListedByFirstEntry(stringKeys, records, StringEntries)
       /\ (Truthy(First(stringKeys)) /\ Truthy(First(numericFields))) =>
            result.table.headers = <<stringKeys[1], numericFields[1]>>
       /\ (records # <<>> /\ numericFields # <<>>) =>
            result.kpis[1].label = TotalPrefix \o numericFields[1]

\* g is categorical in the first record and numeric in the second, m the
\* other way round: both keys are in both lists, in opposite orders
C18_Witness ==
  /\ pc = "done"
  /\ probe.kind = "mixed"
  /\ Len(records) = 2
  /\ NumericFields(records) = << <<"m">>, <<"g">> >>
  /\ Classify(records).stringKeys = << <<"g">>, <<"m">> >>
  /\ result.table.headers = << <<"g">>, <<"m">> >>

\* The sum and the number of the values under a field that parse, over the
\* records that hold a value under the field, from record r on
RECURSIVE ParsedValues(_, _, _)
ParsedValues(recs, field, r) ==
  IF r > Len(recs) THEN [sum |-> Zero, count |-> 0]
  ELSE LET rest   == ParsedValues(recs, field, r + 1)
           got    == Get(recs[r], field)
           parsed == IF got.ok THEN toNumber(got.value) ELSE [ok |-> FALSE]
       IN IF parsed.ok
          THEN [sum |-> RatAdd(parsed.num, rest.sum), count |-> rest.count + 1]
          ELSE rest

\* C19: for every numeric field the total is the sum of the values that
\* parse and the average is the total divided by the number of records
\* whose value for the field parses; a record whose value does not parse,
\* or that has no value for the field, adds nothing and is not counted;
\* that number is at least 1.  The totals of the first three numeric fields
\* and the average of the first are what the kpis show.
C19_TotalsSkipMissing ==
  (pc = "done" /\ Len(records) > 0) =>
    LET numericFields == NumericFields(records)
        shown         == Min(3, Len(numericFields))
    IN /\ \A i \in 1..shown :
            /\ ParsedValues(records, numericFields[i], 1).count >= 1
            /\ result.kpis[i].value =
                 formatNumber(ParsedValues(records, numericFields[i], 1).sum)
       /\ Len(result.kpis) > shown =>
            LET first == ParsedValues(records, numericFields[1], 1)
            IN result.kpis[shown + 1].value =
                 formatNumber(RatDiv(first.sum, RatOfInt(first.count)))

\* The label of a record under a dimension key: the string form of its
\* value, "Unknown" when it has none
LabelUnder(record, dimensionKey) ==
  LET cell == Field(record, dimensionKey)
  IN IF Nullish(cell) THEN UnknownBucket ELSE ToStr(cell)

\* The sum of the parsed measure over the records of a label, from record r on
RECURSIVE LabelSum(_, _, _, _, _)
LabelSum(recs, dimensionKey, measure, label, r) ==
  IF r > Len(recs) THEN Zero
  ELSE LET parsed == toNumber(Field(recs[r], measure))
           rest   == LabelSum(recs, dimensionKey, measure, label, r + 1)
       IN IF LabelUnder(recs[r], dimensionKey) = label /\ parsed.ok
          THEN RatAdd(parsed.num, rest) ELSE rest

\* C20: trends are produced iff a dimension key and a primary measure both
\* exist; then the labels are pairwise distinct string forms of
\* record[dimensionKey] ("Unknown" for a record without one), there are
\* min(8, number of distinct labels) of them, each value is the sum of the
\* parsed primary measure over the records of the label rounded to two
\* decimals, and no bucket left out is larger than one listed.
C20_TrendsIffDimensionAndMeasure ==
  (pc = "done" /\ Len(records) > 0) =>
    LET keys         == Classify(records)
        dimensionKey == First(keys.stringKeys)
        measure      == First(keys.numericKeys)
        trends       == result.trends
    IN IF dimensionKey.ok /\ measure.ok
       THEN LET labels == {LabelUnder(records[r], dimensionKey.key) : r \in 1..Len(records)}
                listed == {trends[i].label : i \in 1..Len(trends)}
            IN /\ Len(trends) = Min(8, Cardinality(labels))
               /\ Cardinality(listed) = Len(trends)
               /\ listed \subseteq labels
               /\ \A i \in 1..Len(trends) :
                    trends[i].value =
                      ToFixed2(LabelSum(records, dimensionKey.key, measure.key,
                                        trends[i].label, 1))
               /\ \A out \in labels \ listed : \A in \in listed :
                    RatLe(LabelSum(records, dimensionKey.key, measure.key, out, 1),
                          LabelSum(records, dimensionKey.key, measure.key, in, 1))
       ELSE trends = <<>>

\* The profile of the demo user (handlers.ts 187-192)
DemoUser ==
  [id |-> "demo-user", name |-> "Avery Agent", title |-> "AI Automation Lead",
   organization |-> "Evolve Analytics"]

Contains(s, word) ==
  \E i \in 1..Len(s) :
    /\ i + Len(word) - 1 <= Len(s)
    /\ \A k \in 1..Len(word) : s[i + k - 1] = word[k]

\* The steps of a chat answer are the creative draft, one tool step and the
\* refined answer, and the token count is between 1 and 1200
ThreeStepAnswer ==
  /\ StatusOf(response) = 200
  /\ Len(response.body.steps) = 3
  /\ response.body.steps[1].label = "Creative draft"
  /\ response.body.steps[2].role = "tool"
  /\ response.body.steps[3].label = "Refined answer"
  /\ Cardinality({i \in 1..3 : response.body.steps[i].role = "tool"}) = 1
  /\ response.body.usage.totalTokens >= 1
  /\ response.body.usage.totalTokens <= 1200

StartsWith(s, prefix) ==
  Len(prefix) <= Len(s) /\ \A k \in 1..Len(prefix) : s[k] = prefix[k]

TurnedAway ==
  \/ request.path = "/api/chat" /\ received.chat % 7 = 0
  \/ /\ request.path = "/api/analysis"
     /\ request.body.content # <<>>
     /\ request.body.model = "ultra-slow"
     /\ received.analysis % 3 = 0

FirstRow(recs, dimensionKey, label) ==
  CHOOSE r \in 1..Len(recs) :
    /\ LabelUnder(recs[r], dimensionKey) = label
    /\ \A q \in 1..(r - 1) : LabelUnder(recs[q], dimensionKey) # label

\* C21: buckets with equal summed value appear in trends in the order in
\* which their labels first appear in the records, whatever the labels look
\* like, and the same order decides which buckets survive the cut to 8: a
\* bucket left out does not first appear before a listed one of equal sum.
C21_TiesInFirstAppearanceOrder ==
  (pc = "done" /\ Len(records) > 0 /\ result.trends # <<>>) =>
    LET keys   == Classify(records)
        dim    == First(keys.stringKeys).key
        m      == First(keys.numericKeys).key
        trends == result.trends
        labels == {LabelUnder(records[r], dim) : r \in 1..Len(records)}
        listed == {trends[i].label : i \in 1..Len(trends)}
    IN /\ \A i \in 1..Len(trends) : \A j \in (i + 1)..Len(trends) :
            LabelSum(records, dim, m, trends[i].label, 1)
              = LabelSum(records, dim, m, trends[j].label, 1)
            => FirstRow(records, dim, trends[i].label)
                 < FirstRow(records, dim, trends[j].label)
       /\ \A out \in labels \ listed : \A in \in listed :
            LabelSum(records, dim, m, out, 1) = LabelSum(records, dim, m, in, 1)
            => FirstRow(records, dim, in) < FirstRow(records, dim, out)

\* s ends with suffix
EndsWith(s, suffix) ==
  /\ Len(suffix) <= Len(s)
  /\ \A k \in 1..Len(suffix) : s[Len(s) - Len(suffix) + k] = suffix[k]

\* The last record's parsed value for a measure, 0 when it does not parse
LatestValue(recs, measure) ==
  LET parsed == toNumber(Field(recs[Len(recs)], measure))
  IN IF parsed.ok THEN parsed.num ELSE Zero

\* C22: when a primary measure exists, the last insight compares the last
\* record's parsed value v for it (0 when it does not parse) with the
\* measure's average a: "stayed flat" iff a = 0, otherwise "is up X%" iff
\* v > a, "dipped X%" iff v < a, "is right on the average" iff v = a, with
\* X derived from (v - a) / a * 100.
C22_LastInsightComparesLatest ==
  (pc = "done" /\ Len(records) > 0 /\ FirstNumericKey(records).ok) =>
    LET m    == FirstNumericKey(records).key
        v    == LatestValue(records, m)
        a    == Average(records, m)
        n    == Len(result.insights)
    IN /\ n > 0
       /\ result.insights[n] = describeChange(m, v, a)
       /\ (result.insights[n] = m \o StayedFlat) <=> (a = Zero)
       /\ (/\ StartsWith(result.insights[n], m \o IsUp)
           /\ EndsWith(result.insights[n], VsRolling))
            <=> (a # Zero /\ RatLt(a, v))
       /\ (/\ StartsWith(result.insights[n], m \o Dipped)
           /\ EndsWith(result.insights[n], ComparedTo))
            <=> (a # Zero /\ RatLt(v, a))
       /\ (result.insights[n] = m \o RightOnAverage) <=> (a # Zero /\ v = a)

\* "<label> leads on <measure> with <value>." and "<label> trails with
\* <value>." for a trend
LeadsInsight(trend, measure) ==
  trend.label \o LeadsOn \o measure \o WithText \o formatNumber(trend.value) \o <<".">>
TrailsInsight(trend) ==
  trend.label \o TrailsWith \o formatNumber(trend.value) \o <<".">>

\* C23: for every non-empty input the insights are, in this order, the
\* "leads" insight iff trends is non-empty, the "trails" insight naming the
\* last trend iff trends has more than one entry, and the change insight
\* iff a primary measure exists; so there are 0 to 3 of them, and at least
\* one whenever a numeric field exists.
C23_InsightsInOrder ==
  (pc = "done" /\ Len(records) > 0) =>
    LET measure == FirstNumericKey(records)
        trends  == result.trends
        leads   == IF trends # <<>>
                   THEN <<LeadsInsight(trends[1], measure.key)>> ELSE <<>>
        trails  == IF Len(trends) > 1
                   THEN <<TrailsInsight(trends[Len(trends)])>> ELSE <<>>
        change  == IF measure.ok
                   THEN <<describeChange(measure.key,
                                         LatestValue(records, measure.key),
                                         Average(records, measure.key))>>
                   ELSE <<>>
    IN /\ result.insights = leads \o trails \o change
       /\ Len(result.insights) <= 3
       /\ NumericFields(records) # <<>> => result.insights # <<>>

\* The rows of a table built from trends: [label, value]
TrendRows(trends) ==
  [i \in 1..Len(trends) |-> <<StrVal(trends[i].label), NumVal(trends[i].value)>>]

\* The rows of a table built from raw records: the values under the
\* headers, the empty string for a missing value
RawRows(recs, headers) ==
  [i \in 1..Len(recs) |->
     [h \in 1..Len(headers) |->
        IF Nullish(Field(recs[i], headers[h])) THEN StrVal(<<>>)
        ELSE Field(recs[i], headers[h])]]

\* C24: the preview table has exactly two shapes: with both a dimension key
\* and a primary measure, headers = [dimensionKey, primaryMeasure] and rows
\* = the first 6 trends as [label, value]; in every other case (a dimension
\* with no numeric field included) headers = the first up to 2 numeric
\* field names and rows = the first 6 records' values for those headers,
\* the empty string for a missing value.
C24_TableTwoShapes ==
  (pc = "done" /\ Len(records) > 0) =>
    LET dimensionKey  == DimensionKey(records)
        measure       == FirstNumericKey(records)
    IN IF dimensionKey.ok /\ measure.ok
       THEN /\ result.table.headers = <<dimensionKey.key, measure.key>>
            /\ result.table.rows = TrendRows(Slice(result.trends, 6))
       ELSE /\ result.table.headers = Slice(NumericFields(records), 2)
            /\ result.table.rows =
                 RawRows(Slice(records, 6), Slice(NumericFields(records), 2))

\* The number of double quotes of line before index i; a comma at i lies
\* inside a quoted span iff that number is odd
QuotesBefore(line, i) == Cardinality({k \in 1..(i - 1) : line[k] = "\""})

\* The commas of line that lie outside quoted spans
OutsideCommas(line) ==
  {i \in 1..Len(line) : line[i] = "," /\ QuotesBefore(line, i) % 2 = 0}

\* C25: for every non-blank line the splitter cuts exactly at the commas
\* outside quoted spans, so the number of fields is the number of such
\* commas plus one: a trailing comma gives a trailing empty field and an
\* empty field, quoted or not, is kept at every position, the last included.
C25_FieldsAreOutsideCommasPlusOne ==
  (pc = "records" /\ probe.kind = "text") =>
    LET lines == NonBlankLines(content)
    IN \A k \in 1..Len(lines) :
         Len(parseCsvLine(lines[k])) = Cardinality(OutsideCommas(lines[k])) + 1

\* The line has an unterminated double quote
Unterminated(line) == QuotesBefore(line, Len(line) + 1) % 2 = 1

\* The text of line after its last double quote
AfterLastQuote(line) ==
  LET q == CHOOSE i \in 1..Len(line) :
             line[i] = "\"" /\ \A k \in (i + 1)..Len(line) : line[k] # "\""
  IN SubSeq(line, q + 1, Len(line))

\* The records of the data lines, each line tokenized on its own
RECURSIVE RowsLineByLine(_, _, _)
RowsLineByLine(headers, lines, k) ==
  IF k > Len(lines) THEN <<>>
  ELSE (IF parseCsvLine(lines[k]) = <<>> THEN <<>>
        ELSE <<MakeRow(headers, parseCsvLine(lines[k]), 1, <<>>)>>)
         \o RowsLineByLine(headers, lines, k + 1)

\* C26: a data line with an unterminated double quote is tolerated: what
\* follows the unmatched quote up to the end of the line, commas included,
\* is part of one field (the last), the line still yields one record, and
\* the other lines are tokenized on their own.
C26_UnterminatedQuoteTolerated ==
  (pc = "records" /\ probe.kind = "text" /\ NonBlankLines(content) # <<>>) =>
    LET lines   == NonBlankLines(content)
        headers == parseCsvLine(lines[1])
    IN /\ records = RowsLineByLine(headers, lines, 2)
       /\ \A k \in 2..Len(lines) :
            Unterminated(lines[k]) =>
              LET values == parseCsvLine(lines[k])
              IN /\ values # <<>>
                 /\ EndsWith(values[Len(values)], Trim(AfterLastQuote(lines[k])))

\* ------------------------------------------------------------------------
\* fetchWithTimeout of src/lib/request-utils.ts as a state machine.  The
\* steps are the stretches of the function between two awaits; the timer
\* callback and the caller's abort are steps of their own.
\* ------------------------------------------------------------------------

MaxRetries == 2

\* The configurations of a call: the retry count and whether the caller
\* passes a signal (analysis-panel.tsx passes one with retries: 2).
FetchConfigs == [retries : 0..MaxRetries, signal : BOOLEAN]

\* What a rejected fetch rejects with: the AbortError of an aborted signal,
\* or a network failure, a TypeError whose message names fetch in some
\* engines ("Failed to fetch") and not in others ("Load failed").
AbortError == [name |-> "AbortError", mentionsFetch |-> FALSE]
FailedToFetch == [name |-> "TypeError", mentionsFetch |-> TRUE]
LoadFailed == [name |-> "TypeError", mentionsFetch |-> FALSE]
FetchErrors(aborted) == IF aborted THEN {AbortError} ELSE {FailedToFetch, LoadFailed}

\* The request has been aborted, by the timer or by the caller.
Aborted == controllerAborted \/ externalAborted

\* fetch(url, fetchOptions) is called: one more attempt on the record.
CallFetch(log, aborted) ==
  [log EXCEPT !.fetches = @ + 1,
              !.fetchesAfterAbort = IF aborted THEN @ + 1 ELSE @]

\* The statements after the loop: the class of the rejection.
Rejection(timedOut, cancelled, error) ==
  IF timedOut THEN "RequestTimeoutError"
  ELSE IF cancelled THEN "RequestAbortedError"
  ELSE IF error.name = "TypeError" /\ error.mentionsFetch THEN "NetworkError"
  ELSE error.name

\* The call runs up to its first await: the controller and the timer are
\* set up, the signals are combined and the first fetch is under way.
FetchInit ==
  /\ MockIdle
  /\ StoreIdle
  /\ content = <<>>
  /\ records = <<>>
  /\ result = NoResult
  /\ probe = [kind |-> "fetch"]
  /\ config \in FetchConfigs
  /\ attempt = 0
  /\ lastError = NoRequest
  /\ controllerAborted = FALSE
  /\ externalAborted = FALSE
  /\ combinedAborted = FALSE
  /\ timeoutId = "armed"
  /\ outcome = "none"
  /\ fetchLog = [fetches |-> 1, fetchesAfterAbort |-> 0, waitsAfterAbort |-> 0,
                 first |-> "none"]
  /\ pc = "fetching"

\* setTimeout(() => controller.abort(), timeout) fires; the combined signal
\* follows the controller's.
TimerFires ==
  /\ pc \in {"fetching", "backoff"}
  /\ timeoutId = "armed"
  /\ timeoutId' = "fired"
  /\ controllerAborted' = TRUE
  /\ combinedAborted' = TRUE
  /\ fetchLog' = [fetchLog EXCEPT !.first = IF @ = "none" THEN "timeout" ELSE @]
  /\ UNCHANGED <<config, attempt, lastError, externalAborted, outcome, pc>>

\* The caller aborts its signal (handleSubmit aborts the previous request's
\* controller); the combined signal follows it.
CallerAborts ==
  /\ pc \in {"fetching", "backoff"}
  /\ config.signal
  /\ ~externalAborted
  /\ externalAborted' = TRUE
  /\ combinedAborted' = TRUE
  /\ fetchLog' = [fetchLog EXCEPT !.first = IF @ = "none" THEN "external" ELSE @]
  /\ UNCHANGED <<config, attempt, lastError, controllerAborted, timeoutId, outcome, pc>>

\* The fetch resolves: the timer is cleared and the response returned.
FetchResolves ==
  /\ pc = "fetching"
  /\ ~combinedAborted
  /\ timeoutId' = "cleared"
  /\ outcome' = "response"
  /\ pc' = "settled"
  /\ UNCHANGED <<config, attempt, lastError, controllerAborted, externalAborted,
                 combinedAborted, fetchLog>>

\* The fetch rejects: the catch block either leaves the loop, and the call
\* rejects with the class of the failure, or starts the backoff wait.
FetchRejects ==
  /\ pc = "fetching"
  /\ \E error \in FetchErrors(combinedAborted) :
       /\ lastError' = error
       /\ IF controllerAborted \/ attempt = config.retries
          THEN /\ timeoutId' = IF timeoutId = "armed" THEN "cleared" ELSE timeoutId
               /\ outcome' = Rejection(controllerAborted, externalAborted, error)
               /\ pc' = "settled"
               /\ fetchLog' = fetchLog
          ELSE /\ pc' = "backoff"
               /\ fetchLog' = [fetchLog EXCEPT !.waitsAfterAbort =
                                                 IF Aborted THEN @ + 1 ELSE @]
               /\ UNCHANGED <<timeoutId, outcome>>
  /\ UNCHANGED <<config, attempt, controllerAborted, externalAborted, combinedAborted>>

\* The backoff wait is over: the loop goes round and calls fetch again.
BackoffElapses ==
  /\ pc = "backoff"
  /\ attempt' = attempt + 1
  /\ fetchLog' = CallFetch(fetchLog, Aborted)
  /\ pc' = "fetching"
  /\ UNCHANGED <<config, lastError, controllerAborted, externalAborted,
                 combinedAborted, timeoutId, outcome>>

FetchNext ==
  \/ (TimerFires /\ UNCHANGED <<content, records, result, probe, mockVars, storeVars>>)
  \/ (CallerAborts /\ UNCHANGED <<content, records, result, probe, mockVars, storeVars>>)
  \/ (FetchResolves /\ UNCHANGED <<content, records, result, probe, mockVars, storeVars>>)
  \/ (FetchRejects /\ UNCHANGED <<content, records, result, probe, mockVars, storeVars>>)
  \/ (BackoffElapses /\ UNCHANGED <<content, records, result, probe, mockVars, storeVars>>)

FetchSpec == FetchInit /\ [][FetchNext]_vars

\* C27: fetchWithTimeout never starts another fetch attempt once the request
\* has been aborted, by its own timeout or by the caller's signal: after an
\* abort the retry loop stops without a backoff wait, the call rejects with
\* RequestTimeoutError for a timeout and RequestAbortedError for an external
\* cancel, and at most retries + 1 fetch attempts are made.
C27_NoAttemptAfterAbort ==
  probe.kind = "fetch" =>
    /\ fetchLog.fetchesAfterAbort = 0
    /\ fetchLog.waitsAfterAbort = 0
    /\ (pc = "settled" /\ fetchLog.first = "timeout") => outcome = "RequestTimeoutError"
    /\ (pc = "settled" /\ fetchLog.first = "external") => outcome = "RequestAbortedError"
    /\ fetchLog.fetches <= config.retries + 1

\* ------------------------------------------------------------------------
\* The persisted store of src/lib/zustand.ts (create, createStoreApi,
\* persist) as src/stores/auth-store.ts uses it, in a browser: the storage
\* is localStorage and `storage` is its entry under the store's name.
\* ------------------------------------------------------------------------

MaxStoreCount == 2

\* A string among the values of the auth state; the other values are null
\* and the profile the login answers with.
Text(s) == [type |-> "string", str |-> s]

\* Object.assign({}, target, source); an undefined argument adds nothing.
Assign(target, source) ==
  IF source = Undefined THEN target
  ELSE IF target = Undefined THEN source
  ELSE [k \in DOMAIN target \cup DOMAIN source |->
          IF k \in DOMAIN source THEN source[k] ELSE target[k]]

\* The properties of the auth state that are functions
Methods == {"login", "logout", "incrementChat", "incrementAnalysis"}

defaultStats == [chatRequests |-> 0, analysisRuns |-> 0, lastLogin |-> NullVal]

\* What the initializer of useAuthStore returns
InitialState ==
  [user |-> NullVal, token |-> NullVal, stats |-> defaultStats, loading |-> FALSE,
   error |-> NullVal, login |-> "function", logout |-> "function",
   incrementChat |-> "function", incrementAnalysis |-> "function"]

\* No entry under the name: getItem returns null
NoEntry == [kind |-> "null"]

\* JSON.stringify({ state, version }) as the value JSON.parse gives back:
\* the properties whose value is a function are left out.
Stringify(currentState, version) ==
  [kind |-> "json",
   value |-> [state |-> [k \in DOMAIN currentState \ Methods |-> currentState[k]],
              version |-> version]]

\* A few states a session can have cached
CachedStates ==
  { [InitialState EXCEPT !.user = user, !.token = token,
                         !.stats = [chatRequests |-> chats, analysisRuns |-> 0,
                                    lastLogin |-> IF token = NullVal THEN NullVal ELSE Text("now")]] :
      user \in {NullVal, DemoUser}, token \in {NullVal, Text("mock-token-123")}, chats \in 0..1 }

\* The entries the storage can hold when the store is created: none, one
\* written by setWithPersist, one written by an older build that kept the
\* user and the token only, and texts that are no such entry: malformed
\* JSON, the JSON text null, and the JSON text {}.
StoredEntries ==
  {NoEntry} \cup {Stringify(cached, 0) : cached \in CachedStates}
  \cup {[kind |-> "json", value |-> [state |-> [user |-> DemoUser, token |-> Text("mock-token-123")],
                                     version |-> 0]]}
  \cup {[kind |-> "malformed"], [kind |-> "json", value |-> NullVal],
        [kind |-> "json", value |-> [version |-> 0]]}

\* JSON.parse(cached) followed by parsed.state: raises on malformed text
\* and on null, gives undefined when the object has no such property.
ParsedState(cached) ==
  IF cached.kind = "malformed" \/ cached.value = NullVal THEN [threw |-> TRUE]
  ELSE IF "state" \in DOMAIN cached.value
       THEN [threw |-> FALSE, value |-> cached.value.state]
       ELSE [threw |-> FALSE, value |-> Undefined]

\* setState of createStoreApi with an object and no replace flag
setState(current, partial) == Assign(current, partial)

\* The state creator persist returns, run with the store's set while the
\* store's own state is still unassigned: what it leaves in the store's
\* state variable, what it leaves in the storage, and what it returns.
persist(entry) ==
  LET initial == InitialState
  IN IF entry = NoEntry
     THEN [state |-> Undefined, storage |-> entry, returned |-> initial]
     ELSE LET parsed == ParsedState(entry)
          IN IF parsed.threw
             THEN [state |-> Undefined, storage |-> NoEntry, returned |-> initial]
             ELSE [state |-> setState(Undefined, Assign(initial, parsed.value)),
                   storage |-> entry, returned |-> initial]

\* createStoreApi: `state = initializer(setState, getState)` assigns the
\* value the initializer returns, after the initializer has run.
createStoreApi(entry) ==
  LET created == persist(entry)
  IN [state |-> created.returned, storage |-> created.storage]

\* setWithPersist: set, then write the current state to the storage.
SetWithPersist(partial) ==
  /\ state' = setState(state, partial)
  /\ storage' = Stringify(state', 0)

\* The page has not loaded the store's module yet.
StoreInit ==
  /\ MockIdle
  /\ FetchIdle
  /\ content = <<>>
  /\ records = <<>>
  /\ result = NoResult
  /\ probe = [kind |-> "store", fresh |-> FALSE]
  /\ storage \in StoredEntries
  /\ state = Undefined
  /\ pc = "creating"

\* The module is evaluated: create(persist(...)).
Create ==
  /\ pc = "creating"
  /\ LET api == createStoreApi(storage)
     IN /\ state' = api.state
        /\ storage' = api.storage
  /\ probe' = [kind |-> "store", fresh |-> TRUE, cached |-> storage]
  /\ pc' = "created"

\* login(username, password) up to its first await
LoginStarts ==
  /\ pc = "created"
  /\ ~state.loading
  /\ SetWithPersist([loading |-> TRUE, error |-> NullVal])
  /\ probe' = [probe EXCEPT !.fresh = FALSE]
  /\ pc' = pc

\* The login response is ok
LoginSucceeds ==
  /\ pc = "created"
  /\ state.loading
  /\ \E chats \in 0..1 :
       SetWithPersist([user |-> DemoUser, token |-> Text("mock-token-123"),
                       stats |-> [chatRequests |-> chats, analysisRuns |-> 0,
                                  lastLogin |-> Text("now")],
                       loading |-> FALSE, error |-> NullVal])
  /\ UNCHANGED <<probe, pc>>

\* The login response is not ok, or the request fails
LoginFails ==
  /\ pc = "created"
  /\ state.loading
  /\ SetWithPersist([error |-> Text("Invalid credentials"), loading |-> FALSE])
  /\ UNCHANGED <<probe, pc>>

Logout ==
  /\ pc = "created"
  /\ SetWithPersist([user |-> NullVal, token |-> NullVal, stats |-> defaultStats])
  /\ probe' = [probe EXCEPT !.fresh = FALSE]
  /\ pc' = pc

IncrementChat ==
  /\ pc = "created"
  /\ state.stats.chatRequests < MaxStoreCount
  /\ SetWithPersist([stats |-> [state.stats EXCEPT !.chatRequests = @ + 1]])
  /\ probe' = [probe EXCEPT !.fresh = FALSE]
  /\ pc' = pc

IncrementAnalysis ==
  /\ pc = "created"
  /\ state.stats.analysisRuns < MaxStoreCount
  /\ SetWithPersist([stats |-> [state.stats EXCEPT !.analysisRuns = @ + 1]])
  /\ probe' = [probe EXCEPT !.fresh = FALSE]
  /\ pc' = pc

\* The page is reloaded: the store is gone, the storage stays.
Reload ==
  /\ pc = "created"
  /\ state' = Undefined
  /\ probe' = [kind |-> "store", fresh |-> FALSE]
  /\ pc' = "creating"
  /\ UNCHANGED storage

StoreNext ==
  \/ (Create /\ UNCHANGED <<content, records, result, mockVars, fetchVars>>)
  \/ (LoginStarts /\ UNCHANGED <<content, records, result, mockVars, fetchVars>>)
  \/ (LoginSucceeds /\ UNCHANGED <<content, records, result, mockVars, fetchVars>>)
  \/ (LoginFails /\ UNCHANGED <<content, records, result, mockVars, fetchVars>>)
  \/ (Logout /\ UNCHANGED <<content, records, result, mockVars, fetchVars>>)
  \/ (IncrementChat /\ UNCHANGED <<content, records, result, mockVars, fetchVars>>)
  \/ (IncrementAnalysis /\ UNCHANGED <<content, records, result, mockVars, fetchVars>>)
  \/ (Reload /\ UNCHANGED <<content, records, result, mockVars, fetchVars>>)

StoreSpec == StoreInit /\ [][StoreNext]_vars

\* The entry is one that setWithPersist or an older build wrote
Serialized(entry) ==
  entry.kind = "json" /\ entry.value # NullVal /\ "state" \in DOMAIN entry.value

\* The entry is corrupt: the text does not parse, or parses to null
Corrupt(entry) == entry.kind = "malformed" \/ (entry.kind = "json" /\ entry.value = NullVal)

\* C28: once a persisted store has been created while the storage held a
\* serialized entry under its name, the store is in the initial state
\* overlaid with the cached state (a cached user and token show through
\* getState); a corrupt entry is removed and the store starts in the
\* initial state.
C28_CreatedStoreShowsCachedState ==
  (probe.kind = "store" /\ probe.fresh) =>
    /\ Serialized(probe.cached) =>
         state = Assign(InitialState, probe.cached.value.state)
    /\ Corrupt(probe.cached) => (storage = NoEntry /\ state = InitialState)

\* ------------------------------------------------------------------------
\* Conservation of the primary measure and the shape of the preview table
\* ------------------------------------------------------------------------

\* The sum of the trend values from trend i on
RECURSIVE TrendSum(_, _)
TrendSum(trends, i) ==
  IF i > Len(trends) THEN Zero ELSE RatAdd(trends[i].value, TrendSum(trends, i + 1))

\* Every record's value under the measure parses, to an integer
AllParseToIntegers(recs, measure) ==
  \A r \in 1..Len(recs) :
    LET parsed == toNumber(Field(recs[r], measure))
    IN parsed.ok /\ parsed.num.d = 1

\* C29: grouping conserves the primary measure: when trends are produced,
\* every record's primary-measure value parses (to an integer) and the
\* records have at most 8 distinct dimension labels, the sum of the trend
\* values equals the total reported for the primary measure.
C29_GroupingConservesMeasure ==
  (pc = "done" /\ Len(records) > 0 /\ result.trends # <<>>) =>
    LET keys   == Classify(records)
        dim    == First(keys.stringKeys).key
        m      == First(keys.numericKeys).key
        labels == {LabelUnder(records[r], dim) : r \in 1..Len(records)}
    IN (AllParseToIntegers(records, m) /\ Cardinality(labels) <= 8) =>
         /\ TrendSum(result.trends, 1) = Total(records, m)
         /\ formatNumber(TrendSum(result.trends, 1)) = result.kpis[1].value

\* C30: in every result the preview table is rectangular and bounded: it
\* has at most 6 rows, every row has as many cells as there are headers,
\* and there are at most 2 headers; when trends are produced, row i is
\* [trends[i].label, trends[i].value], one row for each of the first 6
\* trends.
C30_TableRectangularAndBounded ==
  pc = "done" =>
    LET table  == result.table
        trends == result.trends
    IN /\ Len(table.rows) <= 6
       /\ \A i \in 1..Len(table.rows) : Len(table.rows[i]) = Len(table.headers)
       /\ Len(table.headers) <= 2
       /\ trends # <<>> =>
            /\ Len(table.rows) = Min(6, Len(trends))
            /\ \A i \in 1..Len(table.rows) :
                 table.rows[i] = <<StrVal(trends[i].label), NumVal(trends[i].value)>>

\* A result with more than 6 trends, whose table shows the first 6
C30_MoreTrendsThanRows ==
  /\ pc = "done"
  /\ Len(result.trends) > 6
  /\ Len(result.table.rows) = 6
  /\ Len(result.table.headers) = 2
  /\ result.table.rows[6] =
       <<StrVal(result.trends[6].label), NumVal(result.trends[6].value)>>


====
